---- MODULE Spec2Model ----
(***************************************************************************)
(* Model of sme/interpolate_atmosphere.py: interp_atmo_grid, the 3-D grid  *)
(* interpolation of model atmospheres, with the process-wide grid cache    *)
(* kept on the function object, the three nested bracket searches, the     *)
(* eight corner models, the seven interp_atmo_pair blends and the          *)
(* depth / interp / geometry bookkeeping.                                  *)
(*                                                                         *)
(* Stellar parameters are integers (grid nodes and targets on a scaled     *)
(* axis); blend fractions and blended scalars are exact rationals <<n,d>>. *)
(***************************************************************************)
EXTENDS Integers, Sequences, FiniteSets, TLC

VARIABLES
    cache,      \* attributes kept on the function object (lines 509-513)
    pc,         \* position of the sequential caller inside interp_atmo_grid
    args,       \* arguments of the running call
    atmo_in,    \* the caller's atmo_in object (mutable fields)
    grid,       \* local atmo_grid: the source the grid object was loaded from
    loaded,     \* whether this call executed readsav
    depth,      \* local depth
    interp,     \* local interp
    Mb,         \* metallicity bracket
    Gb,         \* gravity brackets, per iMb
    Tb,         \* temperature brackets, per iMb, iGb
    icor,       \* corner indices, per iMb, iGb, iTb
    printed,    \* diagnostics printed by the running call
    pairs,      \* log of the interp_atmo_pair invocations of the running call
    geom,       \* local geom
    outcome,    \* "running", "ok" or the kind of exception raised
    ret,        \* the object returned
    thr,        \* concurrent callers: locals and position in the cache code
    pr,         \* a direct call of interp_atmo_pair: arguments, locals, position
    fn          \* a direct call of interp_atmo_func: arguments and result

vars == <<cache, pc, args, atmo_in, grid, loaded, depth, interp, Mb, Gb, Tb,
          icor, printed, pairs, geom, outcome, ret, thr, pr, fn>>

\* the frame of the sequential caller of interp_atmo_grid
SeqVarsOfGrid == <<pc, args, atmo_in, grid, loaded, depth, interp, Mb, Gb, Tb, icor,
                   printed, pairs, geom, outcome, ret>>

-----------------------------------------------------------------------------
(* Bounds of the model *)

\* targets Teff, logg, MonH are drawn from 0..MaxTarget
MaxTarget == 4

-----------------------------------------------------------------------------
(* Values *)

NoVal == "None"          \* Python None
Absent == "absent"       \* attribute not present on the object
NoTag == "notag"         \* field not among atmo_in.names
Unset == <<>>            \* a local array not assigned yet

SetMax(S) == CHOOSE x \in S : \A y \in S : y <= x
SetMin(S) == CHOOSE x \in S : \A y \in S : x <= y

\* exact rationals <<n, d>>, d > 0, in lowest terms
Abs(n) == IF n < 0 THEN -n ELSE n

RECURSIVE GCD(_, _)
GCD(a, b) == IF b = 0 THEN a ELSE GCD(b, a % b)

RNorm(n, d) ==
    LET s == IF d < 0 THEN -1 ELSE 1
        g == GCD(Abs(n), Abs(d))
    IN  <<(s * n) \div g, (s * d) \div g>>

RInt(n) == <<n, 1>>
RAdd(a, b) == RNorm(a[1] * b[2] + b[1] * a[2], a[2] * b[2])
RSub(a, b) == RNorm(a[1] * b[2] - b[1] * a[2], a[2] * b[2])
RMul(a, b) == RNorm(a[1] * b[1], a[2] * b[2])
RDiv(a, b) == RNorm(a[1] * b[2], a[2] * b[1])
RLeq(a, b) == a[1] * b[2] <= b[1] * a[2]
RLt(a, b) == a[1] * b[2] < b[1] * a[2]
RZero == <<0, 1>>
ROne == <<1, 1>>
RHalf == <<1, 2>>
RAbs(a) == <<Abs(a[1]), a[2]>>

\* np.min, np.max and np.sum of a vector of rationals
RSeqMin(v) == v[CHOOSE i \in 1..Len(v) : \A j \in 1..Len(v) : RLeq(v[i], v[j])]
RSeqMax(v) == v[CHOOSE i \in 1..Len(v) : \A j \in 1..Len(v) : RLeq(v[j], v[i])]

RECURSIVE RSum(_)
RSum(v) == IF v = <<>> THEN RZero ELSE RAdd(v[1], RSum(Tail(v)))

\* a vector computed element by element, as the array of its values
Array(v) == v \o <<>>

\* a vector of integers as a vector of rationals
RVec(v) == Array([i \in 1..Len(v) |-> RInt(v[i])])

-----------------------------------------------------------------------------
(* The grid files: what readsav returns for each atmo_in.source *)

Sources == {"atlas", "marcs", "krz"}

\* a grid record; the models of the hottest temperature node are tabulated
\* on one depth point more than the others
Model(t, g, m, r) ==
    [teff |-> t, logg |-> g, monh |-> m, radius |-> r,
     ndep |-> IF t = 3 THEN 4 ELSE 3]

\* irregular plane-parallel grid: the gravity nodes differ between the two
\* metallicities, the temperature nodes differ at logg 3, and the last
\* entry duplicates the key of the one before it
AtlasModels ==
    << Model(1, 1, 1, 0), Model(3, 1, 1, 0), Model(1, 3, 1, 0), Model(3, 3, 1, 0),
       Model(1, 1, 3, 0), Model(3, 1, 3, 0), Model(1, 2, 3, 0), Model(3, 2, 3, 0),
       Model(2, 3, 3, 0), Model(3, 3, 3, 0), Model(3, 3, 3, 0) >>

\* spherical grid with three metallicities and three temperatures; one
\* sub-grid holds a single temperature, one metallicity a single gravity,
\* and one entry has no usable radius
MarcsModels ==
    << Model(1, 1, 1, 2), Model(2, 1, 1, 2), Model(3, 1, 1, 2),
       Model(1, 1, 2, 2), Model(2, 1, 2, 2), Model(3, 1, 2, 2), Model(2, 3, 2, 2),
       Model(1, 1, 3, 2), Model(3, 1, 3, 1) >>

\* old-style grid with DEPTH and INTERP fields and one node on two axes
KrzModels == << Model(2, 2, 2, 0), Model(3, 2, 2, 0) >>

\* fields every grid record carries
QuantityTags == {"TEFF", "LOGG", "MONH", "NDEP", "TEMP", "XNE", "XNA", "RHO"}

readsav(source) ==
    CASE source = "atlas" ->
            [models |-> AtlasModels, tags |-> QuantityTags \cup {"RHOX", "TAU"},
             depth |-> NoVal, interp |-> NoVal]
      [] source = "marcs" ->
            [models |-> MarcsModels,
             tags |-> QuantityTags \cup {"TAU", "RADIUS", "HEIGHT"},
             depth |-> NoVal, interp |-> NoVal]
      [] source = "krz" ->
            [models |-> KrzModels,
             tags |-> QuantityTags \cup {"RHOX", "DEPTH", "INTERP"},
             depth |-> "RHOX", interp |-> NoVal]

Indices(g) == 1..Len(g.models)

-----------------------------------------------------------------------------
(* The grid cache *)

EmptyCache ==
    [atmo_grid |-> Absent, atmo_grid_maxdep |-> Absent, atmo_grid_natmo |-> Absent,
     atmo_grid_vers |-> Absent, atmo_grid_file |-> Absent]

LoadedCache(source) ==
    [atmo_grid |-> source, atmo_grid_maxdep |-> source, atmo_grid_natmo |-> source,
     atmo_grid_vers |-> source, atmo_grid_file |-> source]

\* NeedLoad without the comparison of the cached file name
NeedLoadIgnoringSource(atmo_grid, atmo_grid_file, source, reload) ==
    atmo_grid = NoVal \/ reload

\* lines 498-499: whether the grid file is read
NeedLoad(atmo_grid, atmo_grid_file, source, reload) ==
    LET changed == atmo_grid_file # NoVal /\ atmo_grid_file # source
    IN  changed \/ atmo_grid = NoVal \/ reload

-----------------------------------------------------------------------------
(* Depth and interpolation variable (lines 519-566) *)

\* str.upper on the strings a caller passes
Upper(s) ==
    CASE s = "tau" -> "TAU"
      [] s = "rhox" -> "RHOX"
      [] OTHER -> s

Ok(v) == [err |-> "", val |-> v]
Raise(kind) == [err |-> kind, val |-> NoVal]

\* lines 536-541 and 560-565: the value is legal and names a grid field
ValidateVar(v, gtags) ==
    IF v # "TAU" /\ v # "RHOX" THEN Raise("ValueError:must_be_TAU_or_RHOX")
    ELSE IF v \notin gtags THEN Raise("ValueError:field_does_not_exist")
    ELSE Ok(v)

\* lines 526-541. The grid-default branch applies str.upper to the DEPTH
\* column of the whole record array, which raises TypeError.
ResolveDepth(a_depth, g) ==
    IF a_depth # NoVal THEN ValidateVar(Upper(a_depth), g.tags)
    ELSE IF "DEPTH" \in g.tags /\ g.depth # NoVal THEN Raise("TypeError")
    ELSE IF "RHOX" \in g.tags THEN ValidateVar("RHOX", g.tags)
    ELSE IF "TAU" \in g.tags THEN ValidateVar("TAU", g.tags)
    ELSE Raise("ValueError:no_value")

\* lines 550-565, same shape with TAU preferred over RHOX
ResolveInterp(a_interp, g) ==
    IF a_interp # NoVal THEN ValidateVar(Upper(a_interp), g.tags)
    ELSE IF "INTERP" \in g.tags /\ g.interp # NoVal THEN Raise("TypeError")
    ELSE IF "TAU" \in g.tags THEN ValidateVar("TAU", g.tags)
    ELSE IF "RHOX" \in g.tags THEN ValidateVar("RHOX", g.tags)
    ELSE Raise("ValueError:no_value")

-----------------------------------------------------------------------------
(* Bracket searches (lines 577-681) *)

\* a step of a search: err "" or the exception, val the bracket <<lo, up>>,
\* warn whether the extrapolation warning was printed
Step(e, v, w) == [err |-> e, val |-> v, warn |-> w]

\* np.max / np.min of an empty selection raise ValueError
\* lines 579-602
MBracket(Mlist, MonH) ==
    LET Mmin == SetMin(Mlist)
        Mmax == SetMax(Mlist)
        w == MonH > Mmax
    IN  IF MonH < Mmin THEN Step("RangeError", NoVal, w)
        ELSE IF MonH <= Mmax
        THEN Step("", <<SetMax({v \in Mlist : v <= MonH}),
                        SetMin({v \in Mlist : v >= MonH})>>, w)
        ELSE IF {v \in Mlist : v < Mmax} = {}
        THEN Step("ValueError:zero_size_array", NoVal, w)
        ELSE Step("", <<SetMax({v \in Mlist : v < Mmax}), Mmax>>, w)

\* lines 614-638
GBracket(Glist, logg) ==
    LET Gmin == SetMin(Glist)
        Gmax == SetMax(Glist)
        w == logg > Gmax
    IN  IF logg < Gmin THEN Step("RangeError", NoVal, w)
        ELSE IF logg <= Gmax
        THEN Step("", <<SetMax({v \in Glist : v <= logg}),
                        SetMin({v \in Glist : v >= logg})>>, w)
        ELSE IF {v \in Glist : v < Gmax} = {}
        THEN Step("ValueError:zero_size_array", NoVal, w)
        ELSE Step("", <<SetMax({v \in Glist : v < Gmax}), Gmax>>, w)

\* TBracket with the fatal side swapped: above the maximum extrapolates
TBracketNoCeiling(Tlist, Teff) ==
    LET Tmin == SetMin(Tlist)
        Tmax == SetMax(Tlist)
    IN  IF Teff < Tmin THEN Step("RangeError", NoVal, FALSE)
        ELSE IF Teff <= Tmax
        THEN Step("", <<SetMax({v \in Tlist : v <= Teff}),
                        SetMin({v \in Tlist : v >= Teff})>>, FALSE)
        ELSE IF {v \in Tlist : v < Tmax} = {}
        THEN Step("ValueError:zero_size_array", NoVal, TRUE)
        ELSE Step("", <<SetMax({v \in Tlist : v < Tmax}), Tmax>>, TRUE)

\* lines 658-681: the mirrored search; the in-range branch is taken for
\* Teff > Tmin only
TBracket(Tlist, Teff) ==
    LET Tmin == SetMin(Tlist)
        Tmax == SetMax(Tlist)
        w == Teff < Tmin
    IN  IF Teff > Tmax THEN Step("RangeError", NoVal, FALSE)
        ELSE IF Teff > Tmin
        THEN Step("", <<SetMax({v \in Tlist : v <= Teff}),
                        SetMin({v \in Tlist : v >= Teff})>>, w)
        ELSE IF {v \in Tlist : v > Tmin} = {}
        THEN Step("ValueError:zero_size_array", NoVal, w)
        ELSE Step("", <<Tmin, SetMin({v \in Tlist : v > Tmin})>>, w)

\* np.unique(atmo_grid.monh), line 579
MlistOf(g) == {g.models[i].monh : i \in Indices(g)}

\* np.unique(atmo_grid[im].logg), lines 613-614
GlistOf(g, m) == {g.models[i].logg : i \in {j \in Indices(g) : g.models[j].monh = m}}

\* np.unique(atmo_grid[it].teff), lines 655-658
TlistOf(g, m, lg) ==
    {g.models[i].teff :
        i \in {j \in Indices(g) : g.models[j].monh = m /\ g.models[j].logg = lg}}

\* the loop of lines 611-638 over iMb = 0, 1: stops at the first exception
GLoop(g, mb, logg) ==
    LET s0 == GBracket(GlistOf(g, mb[1]), logg)
        s1 == GBracket(GlistOf(g, mb[2]), logg)
        w0 == IF s0.warn THEN {<<"extrapolating_logg", 0>>} ELSE {}
        w1 == IF s1.warn THEN {<<"extrapolating_logg", 1>>} ELSE {}
    IN  IF s0.err # "" THEN Step(s0.err, NoVal, w0)
        ELSE IF s1.err # "" THEN Step(s1.err, NoVal, w0 \cup w1)
        ELSE Step("", [iMb \in 0..1 |-> IF iMb = 0 THEN s0.val ELSE s1.val], w0 \cup w1)

\* iteration order of the loops of lines 652-653: iGb outer, iMb inner
TOrder == << <<0, 0>>, <<1, 0>>, <<0, 1>>, <<1, 1>> >>     \* <<iMb, iGb>>

\* the loop of lines 652-681 from iteration k on, with the brackets and
\* warnings accumulated so far
RECURSIVE TLoopFrom(_, _, _, _, _, _, _)
TLoopFrom(k, g, mb, gb, Teff, tb, w) ==
    IF k > Len(TOrder) THEN Step("", tb, w)
    ELSE LET iMb == TOrder[k][1]
             iGb == TOrder[k][2]
             s == TBracket(TlistOf(g, mb[iMb + 1], gb[iMb][iGb + 1]), Teff)
             w2 == IF s.warn THEN w \cup {<<"extrapolating_teff", iMb, iGb>>} ELSE w
         IN  IF s.err # "" THEN Step(s.err, NoVal, w2)
             ELSE TLoopFrom(k + 1, g, mb, gb, Teff,
                            [tb EXCEPT ![iMb][iGb] = s.val], w2)

TLoop(g, mb, gb, Teff) ==
    TLoopFrom(1, g, mb, gb, Teff, [i \in 0..1 |-> [j \in 0..1 |-> <<0, 0>>]], {})

-----------------------------------------------------------------------------
(* Corner models (lines 694-711) *)

\* np.where(...)[0]: the grid indices matching a corner key, ascending
Iwhr(g, mb, gb, tb, iMb, iGb, iTb) ==
    {i \in Indices(g) :
        /\ g.models[i].teff = tb[iMb][iGb][iTb + 1]
        /\ g.models[i].logg = gb[iMb][iGb + 1]
        /\ g.models[i].monh = mb[iMb + 1]}

Corners == {<<iMb, iGb, iTb>> : iMb \in 0..1, iGb \in 0..1, iTb \in 0..1}

\* CornerIndex taking the last match instead of the first
CornerIndexLast(iwhr) == IF iwhr = {} THEN 0 ELSE SetMax(iwhr)

\* icor[iMb, iGb, iTb] = iwhr[0]; IndexError when nothing matches
CornerIndex(iwhr) == IF iwhr = {} THEN 0 ELSE SetMin(iwhr)

\* line 706-710: the diagnostic is printed when nwhr is not 1
CornerDiag(g, mb, gb, tb) ==
    {<<"models_in_grid", c, Cardinality(Iwhr(g, mb, gb, tb, c[1], c[2], c[3]))>> :
        c \in {d \in Corners : Cardinality(Iwhr(g, mb, gb, tb, d[1], d[2], d[3])) # 1}}


-----------------------------------------------------------------------------
(* interp_atmo_pair as interp_atmo_grid sees it (lines 9-391): the fits   *)
(* it runs, and the scalars of the profile it returns                      *)

\* a grid entry as an atmosphere profile
GridProfile(g, i) ==
    [org |-> <<"grid", i>>,
     teff |-> RInt(g.models[i].teff),
     logg |-> RInt(g.models[i].logg),
     monh |-> RInt(g.models[i].monh),
     ndep |-> g.models[i].ndep]

\* Frac measuring the target from zero instead of from the first value
FracFromZero(target, v0, v1) ==
    IF v0 = v1 THEN RZero ELSE RDiv(RInt(target), RSub(v1, v0))

\* lines 751-753, 802-804, 827-829: fraction from the pair's actual values
Frac(target, v0, v1) ==
    IF v0 = v1 THEN RZero ELSE RDiv(RSub(RInt(target), v0), RSub(v1, v0))

\* lines 374-377: (1 - frac) * atmo1[tag] + frac * atmo2[tag]
BlendScalar(v1, v2, frac) == RAdd(RMul(RSub(ROne, frac), v1), RMul(frac, v2))

\* lines 169-174: the vectors that are fitted
Vtags(interpvar, tags1, tags2) ==
    LET ok_tau == "TAU" \in tags1 /\ "TAU" \in tags2
        ok_rhox == "RHOX" \in tags1 /\ "RHOX" \in tags2
        base == <<"TEMP", "XNE", "XNA", "RHO", interpvar>>
    IN  IF interpvar = "RHOX" /\ ok_tau THEN Append(base, "TAU")
        ELSE IF interpvar = "TAU" /\ ok_rhox THEN Append(base, "RHOX")
        ELSE base

\* FitsRun with the fit loop skipped for a zero fraction
FitsRunSkippingZero(nvtag, frac, failing) ==
    IF frac = RZero THEN 0 ELSE IF failing = 0 THEN nvtag ELSE failing

\* lines 208-235: the number of interp_atmo_constrained invocations of one
\* interp_atmo_pair call. The loop fits every vector whatever frac is;
\* failing > 0 is the invocation in which curve_fit raises.
FitsRun(nvtag, frac, failing) == IF failing = 0 THEN nvtag ELSE failing

\* one invocation: what it was given, how many fits it ran, what it returned
interp_atmo_pair(k, atmo1, atmo2, frac, interpvar, tags, failing) ==
    LET ok_tau == "TAU" \in tags
        ok_rhox == "RHOX" \in tags
        vtags == Vtags(interpvar, tags, tags)
        missing == {i \in 1..Len(vtags) : vtags[i] \notin tags}
        e == IF ~ok_tau /\ ~ok_rhox THEN "ValueError:no_depth_scale"
             ELSE IF interpvar # "TAU" /\ interpvar # "RHOX" THEN "ValueError:interpvar"
             ELSE IF missing # {} /\ (failing = 0 \/ SetMin(missing) <= failing)
                  THEN "ValueError:missing_vector"
             ELSE IF failing # 0 THEN "RuntimeError:curve_fit"
             ELSE ""
        n == IF ~ok_tau /\ ~ok_rhox THEN 0
             ELSE IF interpvar # "TAU" /\ interpvar # "RHOX" THEN 0
             ELSE IF missing # {} /\ (failing = 0 \/ SetMin(missing) <= failing)
                  THEN SetMin(missing) - 1
             ELSE FitsRun(Len(vtags), frac, failing)
    IN  [atmo1 |-> atmo1.org, atmo2 |-> atmo2.org, frac |-> frac,
         v1 |-> <<atmo1.teff, atmo1.logg, atmo1.monh>>,
         v2 |-> <<atmo2.teff, atmo2.logg, atmo2.monh>>,
         interpvar |-> interpvar, nvtag |-> Len(vtags), nfit |-> n, err |-> e,
         out |-> [org |-> <<"pair", k>>,
                  teff |-> BlendScalar(atmo1.teff, atmo2.teff, frac),
                  logg |-> BlendScalar(atmo1.logg, atmo2.logg, frac),
                  monh |-> BlendScalar(atmo1.monh, atmo2.monh, frac),
                  ndep |-> IF atmo1.ndep > atmo2.ndep THEN atmo2.ndep
                           ELSE atmo1.ndep]]

-----------------------------------------------------------------------------
(* interp_atmo_func (lines 937-993). Vectors are sequences of rationals;  *)
(* an argument that is not passed is Unset, ndep = n is passed as <<n>>.   *)

\* Interp1d that holds the end values outside the table
Interp1dHoldingEnds(x, y, xn) ==
    IF RLeq(xn, x[1]) THEN y[1]
    ELSE IF RLeq(x[Len(x)], xn) THEN y[Len(y)]
    ELSE LET lo == CHOOSE i \in 1..(Len(x) - 1) : RLeq(x[i], xn) /\ RLt(xn, x[i + 1])
         IN  RAdd(y[lo], RMul(RDiv(RSub(y[lo + 1], y[lo]), RSub(x[lo + 1], x[lo])),
                              RSub(xn, x[lo])))

\* line 973: interp1d(x, y, kind="linear", fill_value="extrapolate")(xn) for
\* an ascending x: the segment is found by searchsorted and clipped to the
\* table, so the first and the last segment extend beyond it
Interp1d(x, y, xn) ==
    LET n == Len(x)
        k == Cardinality({i \in 1..n : RLt(x[i], xn)})
        lo == IF k < 1 THEN 1 ELSE IF k > n - 1 THEN n - 1 ELSE k
        hi == lo + 1
        slope == RDiv(RSub(y[hi], y[lo]), RSub(x[hi], x[lo]))
    IN  RAdd(RMul(slope, RSub(xn, x[lo])), y[lo])

\* np.clip
Clip(v, lo, hi) == IF RLt(v, lo) THEN lo ELSE IF RLt(hi, v) THEN hi ELSE v

\* lines 964-993
interp_atmo_func(x1, par, ndep, x2, y2, y1) ==
    LET n == IF ndep = Unset THEN Len(x1) ELSE ndep[1]
        m == IF n < Len(x1) THEN n ELSE Len(x1)          \* x1[:ndep]
        x2sh == Array([i \in 1..Len(x2) |-> RAdd(x2[i], par[1])])
        y2sh == Array([i \in 1..Len(y2) |-> RAdd(y2[i], par[2])])
        yi == Array([i \in 1..m |-> Interp1d(x2sh, y2sh, x1[i])])
        y1cen == RMul(RHalf, RAdd(RSeqMin(yi), RSeqMax(yi)))
        ys == Array([i \in 1..m |->
                        RAdd(y1cen, RMul(RAdd(ROne, par[3]), RSub(yi[i], y1cen)))])
        y1min == RSeqMin(y1)
        y1max == RSeqMax(y1)
        yc == IF y1 = Unset THEN ys
              ELSE Array([i \in 1..m |-> Clip(ys[i], y1min, y1max)])
    IN  Array([i \in 1..Len(x1) |-> IF i <= m THEN yc[i] ELSE RZero])

\* longest output abscissa of a direct call
MaxLen == 3

\* the arguments of direct calls
FuncAbscissae == {RInt(-1), RHalf, RInt(1), RInt(3)}
FuncX1s == UNION {[1..n -> FuncAbscissae] : n \in 1..MaxLen}
NoShift == <<RZero, RZero, RZero, RZero>>
FuncPars == {NoShift, <<ROne, RZero, RZero, RZero>>, <<RZero, ROne, RZero, RZero>>,
             <<RZero, RZero, ROne, RZero>>}
FuncNdeps == {Unset, <<1>>, <<2>>}
FuncCurves == {[x2 |-> RVec(<<0, 1, 2>>), y2 |-> RVec(<<3, 4, 6>>)],
               [x2 |-> RVec(<<0, 2>>), y2 |-> RVec(<<5, 2>>)]}
FuncY1s == {Unset, RVec(<<3, 4>>)}

IdleFunc == [pc |-> "idle"]

\* interp_atmo_func(x1, par, ndep=..., x2=..., y2=..., y1=...) is called
FCall ==
    /\ fn.pc = "idle"
    /\ \E x1 \in FuncX1s, par \in FuncPars, ndep \in FuncNdeps, c \in FuncCurves,
          y1 \in FuncY1s :
          fn' = [pc |-> "called", x1 |-> x1, par |-> par, ndep |-> ndep,
                 x2 |-> c.x2, y2 |-> c.y2, y1 |-> y1]
    /\ UNCHANGED <<cache, SeqVarsOfGrid, thr, pr>>

\* lines 964-993
FApply ==
    /\ fn.pc = "called"
    /\ fn' = [pc |-> "done", x1 |-> fn.x1, par |-> fn.par, ndep |-> fn.ndep,
              x2 |-> fn.x2, y2 |-> fn.y2, y1 |-> fn.y1,
              y |-> interp_atmo_func(fn.x1, fn.par, fn.ndep, fn.x2, fn.y2, fn.y1)]
    /\ UNCHANGED <<cache, SeqVarsOfGrid, thr, pr>>

\* the caller has taken the result
FReturn ==
    /\ fn.pc = "done"
    /\ fn' = IdleFunc
    /\ UNCHANGED <<cache, SeqVarsOfGrid, thr, pr>>

FuncNext ==
    \/ FCall
    \/ FApply
    \/ FReturn

-----------------------------------------------------------------------------
(* interp_atmo_constrained (lines 895-934) and the least-squares fit       *)

\* line 181
npar == 4

\* the steps, on the lattice of the model, by which a fit may move the
\* horizontal and the vertical shift away from the initial guess, and the
\* values it may give the scale parameter
Deltas == {-1, 0, 1}
Scales == {RZero, ROne}

FitCandidates(par) ==
    {par} \cup {<<RAdd(par[1], RInt(dh)), RAdd(par[2], RInt(dv)), sc, par[4]>> :
                    dh \in Deltas, dv \in Deltas, sc \in Scales}

\* 1 / sigma ** 2 of the i-th residual: err1 = 0.05 for the n depth points
\* (line 177), constraints[0] = 0.5 for the appended point (lines 193, 916)
Weight(i, n) == IF i <= n THEN 400 ELSE 4

\* the sum of squares curve_fit minimises
Cost(y, f, n) ==
    RSum(Array([i \in 1..Len(y) |->
            RMul(RInt(Weight(i, n)), RMul(RSub(y[i], f[i]), RSub(y[i], f[i])))]))

\* line 925, curve_fit(func, x, y, sigma=err, p0=par): the outcomes it can
\* have. It raises TypeError for fewer residuals than parameters; from a
\* guess with vanishing residuals it makes no step; otherwise it returns
\* parameters of least sum of squares, here among the candidates, or raises
\* RuntimeError when it does not converge. Nothing holds a parameter
\* fixed: parinfo is not looked at.
curve_fit(x, y, p0, functargs) ==
    LET func(q) == interp_atmo_func(x, q, <<functargs.ndep>>, functargs.x2,
                                    functargs.y2, functargs.y1)
        n == Len(x) - 1
        cost(q) == Cost(y, func(q), n)
        scored == {<<q, cost(q)>> : q \in FitCandidates(p0)}
        least == CHOOSE c \in scored : \A d \in scored : RLeq(c[2], d[2])
    IN  IF Len(x) < npar THEN {[err |-> "TypeError:curve_fit", popt |-> p0]}
        ELSE IF <<p0, RZero>> \in scored THEN {[err |-> "", popt |-> p0]}
        ELSE {[err |-> "", popt |-> c[1]] : c \in {d \in scored : d[2] = least[2]}}
             \cup {[err |-> "RuntimeError:curve_fit", popt |-> p0]}

\* lines 906-934 with the constraints of line 193: one point (0, 0) is
\* appended to the fitted points
interp_atmo_constrained(x_in, y_in, par, functargs) ==
    curve_fit(Append(x_in, RZero), Append(y_in, RZero), par, functargs)

-----------------------------------------------------------------------------
(* interp_atmo_pair in full (lines 9-391), called directly. A depth vector *)
(* and an atmospheric quantity are held by their log10, the scale the      *)
(* fits and the blends of the function work on: an entry e is 10 ** e.    *)

VectorTags == {"TAU", "RHOX", "TEMP", "XNE", "XNA", "RHO"}
AllTags == {"TEFF", "LOGG", "MONH", "NDEP"} \cup VectorTags

\* a profile with the fields named in tags; a vector that is not among
\* them is Unset
Profile(tags, t, tau, rhox, temp, xne, xna, rho) ==
    [tags |-> tags, NDEP |-> Len(temp), TEFF |-> RInt(t), LOGG |-> RInt(1),
     MONH |-> RInt(0),
     TAU |-> IF "TAU" \in tags THEN RVec(tau) ELSE Unset,
     RHOX |-> IF "RHOX" \in tags THEN RVec(rhox) ELSE Unset,
     TEMP |-> IF "TEMP" \in tags THEN RVec(temp) ELSE Unset,
     XNE |-> IF "XNE" \in tags THEN RVec(xne) ELSE Unset,
     XNA |-> IF "XNA" \in tags THEN RVec(xna) ELSE Unset,
     RHO |-> IF "RHO" \in tags THEN RVec(rho) ELSE Unset,
     HEIGHT |-> Unset]

\* profile p with the vector HEIGHT, a vector on the depth points that is
\* neither a depth scale nor a fitted quantity
WithHeight(p, height) ==
    [p EXCEPT !.tags = @ \cup {"HEIGHT"}, !.HEIGHT = RVec(height)]

\* a vector given in tenths
Tenths(v) == Array([i \in 1..Len(v) |-> RNorm(v[i], 10)])

\* four depth points
Cool == Profile(AllTags, 1, <<0, 1, 2, 3>>, <<1, 2, 3, 4>>, <<3, 4, 6, 7>>,
                <<10, 11, 12, 14>>, <<14, 15, 16, 17>>, <<-8, -7, -6, -4>>)

\* the curves of Cool one step deeper, on three depth points
Warm == Profile(AllTags, 3, <<1, 2, 3>>, <<2, 3, 4>>, <<3, 4, 6>>,
                <<10, 11, 12>>, <<14, 15, 16>>, <<-8, -7, -6>>)

\* four depth points, other curves
Hot == Profile(AllTags, 5, <<0, 1, 2, 3>>, <<1, 2, 3, 4>>, <<4, 4, 5, 7>>,
               <<11, 12, 14, 15>>, <<14, 16, 17, 18>>, <<-7, -6, -5, -4>>)

\* the two uppermost layers coincide on both depth scales
DegenerateTop == Profile(AllTags, 2, <<0, 0, 1, 2, 3>>, <<1, 1, 2, 3, 4>>,
                         <<3, 3, 4, 6, 7>>, <<10, 10, 11, 12, 14>>,
                         <<14, 14, 15, 16, 17>>, <<-8, -8, -7, -6, -4>>)

\* a coarse depth scale
Coarse == Profile(AllTags, 4, <<0, 2, 4>>, <<1, 3, 5>>, <<3, 4, 5>>,
                  <<10, 12, 13>>, <<14, 15, 17>>, <<-8, -6, -5>>)

\* a fine depth scale over a short range, steep curves
Fine == Profile(AllTags, 6, <<0, 1, 2>>, <<1, 2, 3>>, <<3, 5, 7>>,
                <<10, 12, 15>>, <<14, 16, 19>>, <<-8, -6, -3>>)

\* DegenerateTop with a height vector
DegenerateTopSph == WithHeight(DegenerateTop, <<9, 9, 7, 5, 3>>)

\* no step of either depth scale is above the minimum
Flat == Profile(AllTags, 7, <<1, 1, 1>>, <<2, 2, 2>>, <<3, 4, 6>>,
                <<10, 11, 12>>, <<14, 15, 16>>, <<-8, -7, -6>>)

\* two profiles of five depth points whose temperature ends at
\* log T = 4.2: the curve of the second is that of the first one step
\* higher up, except at the deepest point
EdgeA == [Profile(AllTags, 8, <<0, 1, 2, 3, 4>>, <<1, 2, 3, 4, 5>>, <<0, 0, 0, 0, 0>>,
                  <<10, 11, 12, 13, 14>>, <<14, 15, 16, 17, 18>>, <<-8, -7, -6, -5, -4>>)
            EXCEPT !.TEMP = Tenths(<<26, 30, 34, 38, 42>>)]
EdgeB == [Profile(AllTags, 9, <<-1, 0, 1, 2, 4>>, <<0, 1, 2, 3, 5>>, <<0, 0, 0, 0, 0>>,
                  <<10, 11, 12, 13, 14>>, <<14, 15, 16, 17, 18>>, <<-8, -7, -6, -5, -4>>)
            EXCEPT !.TEMP = Tenths(<<26, 30, 34, 38, 42>>)]

\* EdgeA with a height vector
EdgeASph == WithHeight(EdgeA, <<9, 7, 5, 3, 1>>)

\* EdgeB without its uppermost point
EdgeC == [Profile(AllTags, 10, <<0, 1, 2, 4>>, <<1, 2, 3, 5>>, <<0, 0, 0, 0>>,
                  <<11, 12, 13, 14>>, <<15, 16, 17, 18>>, <<-7, -6, -5, -4>>)
            EXCEPT !.TEMP = Tenths(<<30, 34, 38, 42>>)]

\* profiles with fields missing
NoTau == Profile(AllTags \ {"TAU"}, 1, <<>>, <<1, 2, 3, 4>>, <<3, 4, 6, 7>>,
                 <<10, 11, 12, 14>>, <<14, 15, 16, 17>>, <<-8, -7, -6, -4>>)
NoXna == Profile(AllTags \ {"XNA"}, 3, <<0, 1, 2, 3>>, <<1, 2, 3, 4>>, <<3, 4, 6, 7>>,
                 <<10, 11, 12, 14>>, <<>>, <<-8, -7, -6, -4>>)
NoDepth == Profile(AllTags \ {"TAU", "RHOX"}, 1, <<>>, <<>>, <<3, 4, 6, 7>>,
                   <<10, 11, 12, 14>>, <<14, 15, 16, 17>>, <<-8, -7, -6, -4>>)

\* the pairs interp_atmo_pair is called with
PairInputs ==
    {<<Cool, Cool>>, <<DegenerateTop, DegenerateTop>>, <<Cool, Warm>>, <<Warm, Cool>>,
     <<Cool, Hot>>, <<Coarse, Fine>>, <<DegenerateTop, Cool>>,
     <<Cool, NoTau>>, <<NoTau, NoTau>>, <<Cool, NoXna>>, <<NoXna, Cool>>,
     <<NoDepth, Cool>>, <<NoDepth, NoDepth>>,
     <<DegenerateTopSph, Cool>>, <<Flat, Cool>>, <<Cool, Flat>>,
     <<EdgeA, EdgeB>>, <<EdgeASph, EdgeC>>}

\* itop as passed: the default 0 and, for some of the pairs, 1 to clip the
\* top depth point
Itops(ab) ==
    IF ab \in {<<Cool, Hot>>, <<DegenerateTop, Cool>>, <<Cool, Flat>>} THEN {0, 1}
    ELSE {0}

\* frac: the two ends, the middle, and a value beyond the second profile
Fracs == {RZero, RHalf, ROne, <<3, 2>>}

\* interpvar as passed: left at its default "", None, or a string
InterpVars == {"", NoVal, "TAU", "RHOX", "XX"}

\* lines 98-99: log10(1 + min_drhox) = log10(1 + min_dtau), rounded down
min_dlog == <<432, 100000>>

\* lines 132-138: the loop that skips top layers whose step to the next
\* layer is not above the minimum; -1 when it runs off the end (IndexError)
RECURSIVE TopTrim(_, _)
TopTrim(v, itop) ==
    IF itop + 2 > Len(v) THEN -1
    ELSE IF RLeq(RSub(v[itop + 2], v[itop + 1]), min_dlog) THEN TopTrim(v, itop + 1)
    ELSE itop

\* lines 134, 137: the largest index the condition of the loop indexes the
\* depth vector with; the loop has no test against ndep
TopRead(v, itop) ==
    IF TopTrim(v, itop) < 0 THEN Len(v) ELSE TopTrim(v, itop) + 1

\* v[itop : ibot + 1] with ibot = ndep - 1
Slice(v, itop, ndep) == SubSeq(v, itop + 1, ndep)

\* lines 185-186: np.argmin(np.abs(temp - 0.5 * (temp[1] + temp[ndep - 2])))
Mid(temp) ==
    LET n == Len(temp)
        c == RMul(RHalf, RAdd(temp[2], temp[n - 1]))
        d(i) == RAbs(RSub(temp[i], c))
    IN  SetMin({i \in 1..n : \A j \in 1..n : RLeq(d(i), d(j))})

\* v[igd] for a set igd of indices
Select(v, igd) ==
    Array([k \in 1..Cardinality(igd) |->
             v[CHOOSE i \in igd : Cardinality({j \in igd : j <= i}) = k]])

\* lines 259-261
Overlap(depth1, depth2, shift) ==
    {i \in 1..Len(depth1) :
        /\ RLeq(RAdd(RSeqMin(depth2), shift), depth1[i])
        /\ RLeq(depth1[i], RAdd(RSeqMax(depth2), shift))}

\* Median3 returning the second of the three values
Median3Middle(a, b, c) == b

\* np.median of three values
Median3(a, b, c) ==
    IF (RLeq(a, b) /\ RLeq(b, c)) \/ (RLeq(c, b) /\ RLeq(b, a)) THEN b
    ELSE IF (RLeq(b, a) /\ RLeq(a, c)) \/ (RLeq(c, a) /\ RLeq(a, b)) THEN a
    ELSE c

\* a scalar times a parameter vector
ParTimes(f, par) == Array([i \in 1..Len(par) |-> RMul(f, par[i])])

\* OutputScale taking the scale of the profile with more depth points
OutputScaleLongest(depth1, depth2, xsh, frac) ==
    LET depth1f == [i \in 1..Len(depth1) |-> RSub(depth1[i], RMul(xsh, frac))]
        depth2f == [i \in 1..Len(depth2) |-> RAdd(depth2[i], RMul(xsh, RSub(ROne, frac)))]
    IN  IF Len(depth1) > Len(depth2) THEN depth1f
        ELSE IF Len(depth1) = Len(depth2)
        THEN [i \in 1..Len(depth1) |->
                RAdd(RMul(depth1f[i], RSub(ROne, frac)), RMul(depth2f[i], frac))]
        ELSE depth2f

\* lines 275-282
OutputScale(depth1, depth2, xsh, frac) ==
    LET depth1f == [i \in 1..Len(depth1) |-> RSub(depth1[i], RMul(xsh, frac))]
        depth2f == [i \in 1..Len(depth2) |-> RAdd(depth2[i], RMul(xsh, RSub(ROne, frac)))]
    IN  IF Len(depth1) > Len(depth2) THEN depth2f
        ELSE IF Len(depth1) = Len(depth2)
        THEN [i \in 1..Len(depth1) |->
                RAdd(RMul(depth1f[i], RSub(ROne, frac)), RMul(depth2f[i], frac))]
        ELSE depth1f

\* BlendVect with the two weights exchanged
BlendVectSwapped(odepth, frac, par, depth1, vect1, depth2, vect2) ==
    LET vect1f == interp_atmo_func(odepth, ParTimes(RSub(RZero, frac), par), Unset,
                                   depth1, vect1, Unset)
        vect2f == interp_atmo_func(odepth, ParTimes(RSub(ROne, frac), par), Unset,
                                   depth2, vect2, Unset)
    IN  [i \in 1..Len(odepth) |->
            RAdd(RMul(frac, vect1f[i]), RMul(RSub(ROne, frac), vect2f[i]))]

\* lines 298-326: one quantity on the output depth scale odepth
BlendVect(odepth, frac, par, depth1, vect1, depth2, vect2) ==
    LET ndep == Len(odepth)
        ndep1 == Len(depth1)
        ndep2 == Len(depth2)
        x1max == RSeqMax([i \in 1..ndep1 |-> RSub(depth1[i], RMul(par[1], frac))])
        x2max == RSeqMax([i \in 1..ndep2 |->
                            RAdd(depth2[i], RMul(par[1], RSub(ROne, frac)))])
        iup == {i \in 1..ndep : RLt(x1max, odepth[i]) \/ RLt(x2max, odepth[i])}
        checkup == /\ Cardinality(iup) >= 1
                   /\ RLeq(RAbs(RSub(frac, RHalf)), RHalf)
                   /\ ndep1 = ndep2
        vect1f == interp_atmo_func(odepth, ParTimes(RSub(RZero, frac), par), Unset,
                                   depth1, vect1, Unset)
        vect2f == interp_atmo_func(odepth, ParTimes(RSub(ROne, frac), par), Unset,
                                   depth2, vect2, Unset)
        vect == [i \in 1..ndep |->
                    RAdd(RMul(RSub(ROne, frac), vect1f[i]), RMul(frac, vect2f[i]))]
        near(v) == RLt(RAbs(RSub(v, <<42, 10>>)), <<1, 10>>)
        override == /\ checkup
                    /\ Median3(vect1[ndep1], vect[ndep], vect2[ndep2]) # vect[ndep]
                    /\ near(vect1[ndep1]) \/ near(vect2[ndep2])
    IN  [i \in 1..ndep |->
            IF override /\ i \in iup
            THEN IF RLt(x1max, x2max) THEN vect2f[i] ELSE vect1f[i]
            ELSE vect[i]]

\* line 359, the scalars the profiles of the model carry
stags == {"TEFF", "LOGG", "MONH"}

\* the position of a tag in vtags, 0 when it is not there
IndexIn(vtags, tag) ==
    IF \E i \in 1..Len(vtags) : vtags[i] = tag
    THEN CHOOSE i \in 1..Len(vtags) : vtags[i] = tag
    ELSE 0

\* OutField with the interpolation depth scale (vtags[5]) copied from atmo1
\* like a vector that was not fitted
OutFieldDepthCopied(tag, atmo1, atmo2, frac, vtags, vects, ndep) ==
    IF tag = "NDEP" THEN ndep
    ELSE IF tag \in stags
    THEN IF tag \in atmo2.tags THEN BlendScalar(atmo1[tag], atmo2[tag], frac)
         ELSE atmo1[tag]
    ELSE IF IndexIn(vtags, tag) # 0 /\ tag # vtags[5] THEN vects[IndexIn(vtags, tag)]
    ELSE IF Len(atmo1[tag]) = Len(atmo1.TEMP) THEN SubSeq(atmo1[tag], 1, ndep)
    ELSE atmo1[tag]

\* lines 361-390 for one tag of atmo1
OutField(tag, atmo1, atmo2, frac, vtags, vects, ndep) ==
    IF tag = "NDEP" THEN ndep
    ELSE IF tag \in stags
    THEN IF tag \in atmo2.tags THEN BlendScalar(atmo1[tag], atmo2[tag], frac)
         ELSE atmo1[tag]
    ELSE IF IndexIn(vtags, tag) # 0 THEN vects[IndexIn(vtags, tag)]
    ELSE IF Len(atmo1[tag]) = Len(atmo1.TEMP) THEN SubSeq(atmo1[tag], 1, ndep)
    ELSE atmo1[tag]

\* OutProfile that keeps the depth-point count of atmo1
OutProfileOldCount(atmo1, atmo2, frac, vtags, vects, ndep) ==
    [tag \in DOMAIN atmo1 |->
        IF tag = "tags" THEN atmo1.tags
        ELSE IF tag \in atmo1.tags /\ tag # "NDEP"
        THEN OutField(tag, atmo1, atmo2, frac, vtags, vects, ndep)
        ELSE atmo1[tag]]

\* lines 358-391: the output structure has the tags of atmo1
OutProfile(atmo1, atmo2, frac, vtags, vects, ndep) ==
    [tag \in DOMAIN atmo1 |->
        IF tag = "tags" THEN atmo1.tags
        ELSE IF tag \in atmo1.tags
        THEN OutField(tag, atmo1, atmo2, frac, vtags, vects, ndep)
        ELSE atmo1[tag]]

\* no call of interp_atmo_pair is running
IdlePair == [pc |-> "idle"]

\* an exception leaves interp_atmo_pair
PFail(kind) == pr' = [pr EXCEPT !.pc = "done", !.err = kind]

\* interp_atmo_pair(atmo1, atmo2, frac, interpvar=...) is entered
PCall ==
    /\ pr.pc = "idle"
    /\ \E ab \in PairInputs, frac \in Fracs, v \in InterpVars :
       \E itop \in Itops(ab) :
          pr' = [pc |-> "select", atmo1 |-> ab[1], atmo2 |-> ab[2], frac |-> frac,
                 arg |-> v, interpvar |-> v, itop |-> itop, itop1 |-> 0, itop2 |-> 0,
                 top1 |-> -1, top2 |-> -1,
                 depth1 |-> Unset, depth2 |-> Unset, vtags |-> <<>>, ivtag |-> 0,
                 ipar |-> NoShift, ngd |-> 0, igd |-> {}, ndg |-> -1, pars |-> <<>>,
                 nfit |-> 0, odepth |-> Unset, out |-> Unset, err |-> ""]
    /\ UNCHANGED <<cache, SeqVarsOfGrid, thr, fn>>

\* lines 110-125
PSelect ==
    /\ pr.pc = "select"
    /\ LET ok_tau == "TAU" \in pr.atmo1.tags /\ "TAU" \in pr.atmo2.tags
           ok_rhox == "RHOX" \in pr.atmo1.tags /\ "RHOX" \in pr.atmo2.tags
           interpvar == IF pr.interpvar = NoVal
                        THEN IF ok_tau THEN "TAU" ELSE "RHOX"
                        ELSE pr.interpvar
       IN  IF ~ok_tau /\ ~ok_rhox THEN PFail("ValueError:no_depth_scale")
           ELSE IF interpvar # "TAU" /\ interpvar # "RHOX"
           THEN pr' = [pr EXCEPT !.pc = "done", !.err = "ValueError:interpvar",
                                 !.interpvar = interpvar]
           ELSE pr' = [pr EXCEPT !.pc = "scales", !.interpvar = interpvar]
    /\ UNCHANGED <<cache, SeqVarsOfGrid, thr, fn>>

\* lines 131-202: the two depth scales, the list of vectors, the guess
PScales ==
    /\ pr.pc = "scales"
    /\ LET v == pr.interpvar
           a1 == pr.atmo1
           a2 == pr.atmo2
           itop1 == TopTrim(a1[v], pr.itop)
           itop2 == TopTrim(a2[v], pr.itop)
           depth1 == Slice(a1[v], itop1, a1.NDEP)
           depth2 == Slice(a2[v], itop2, a2.NDEP)
           temp1 == Slice(a1.TEMP, itop1, a1.NDEP)
           temp2 == Slice(a2.TEMP, itop2, a2.NDEP)
           mid1 == Mid(temp1)
           mid2 == Mid(temp2)
       IN  IF v \notin a1.tags THEN PFail("AttributeError")
           ELSE IF itop1 < 0
           THEN pr' = [pr EXCEPT !.pc = "done", !.err = "IndexError",
                                 !.top1 = TopRead(a1[v], pr.itop)]
           ELSE IF v \notin a2.tags THEN PFail("AttributeError")
           ELSE IF itop2 < 0
           THEN pr' = [pr EXCEPT !.pc = "done", !.err = "IndexError",
                                 !.itop1 = itop1, !.top1 = TopRead(a1[v], pr.itop),
                                 !.top2 = TopRead(a2[v], pr.itop)]
           ELSE IF "TEMP" \notin a1.tags \/ "TEMP" \notin a2.tags
           THEN PFail("AttributeError")
           ELSE pr' = [pr EXCEPT
                         !.pc = "fit", !.itop1 = itop1, !.itop2 = itop2,
                         !.top1 = TopRead(a1[v], pr.itop),
                         !.top2 = TopRead(a2[v], pr.itop),
                         !.depth1 = depth1, !.depth2 = depth2,
                         !.vtags = Vtags(v, a1.tags, a2.tags),
                         !.ipar = <<RSub(depth1[mid1], depth2[mid2]),
                                    RSub(temp1[mid1], temp2[mid2]), RZero, RZero>>,
                         !.ngd = Len(depth1), !.igd = 1..Len(depth1)]
    /\ UNCHANGED <<cache, SeqVarsOfGrid, thr, fn>>

\* line 263: the test that guards "unstable shift in temperature"
Unstable(ngd, ndg) == ngd < 2

\* lines 210-264: one pass of the loop over the vectors
PFit ==
    /\ pr.pc = "fit"
    /\ LET vtag == pr.vtags[pr.ivtag + 1]
           vect1 == Slice(pr.atmo1[vtag], pr.itop1, pr.atmo1.NDEP)
           vect2 == Slice(pr.atmo2[vtag], pr.itop2, pr.atmo2.NDEP)
           functargs == [x2 |-> pr.depth2, y2 |-> vect2, y1 |-> vect1, ndep |-> pr.ngd]
       IN  IF vtag \notin pr.atmo1.tags THEN PFail("ValueError:atmo1_does_not_contain")
           ELSE IF vtag \notin pr.atmo2.tags THEN PFail("ValueError:atmo2_does_not_contain")
           ELSE \E r \in interp_atmo_constrained(Select(pr.depth1, pr.igd),
                                                 Select(vect1, pr.igd), pr.ipar,
                                                 functargs) :
                   IF r.err # ""
                   THEN pr' = [pr EXCEPT !.pc = "done", !.err = r.err, !.nfit = @ + 1]
                   ELSE IF pr.ivtag = 0
                   THEN LET igd == Overlap(pr.depth1, pr.depth2, r.popt[1])
                            ndg == Cardinality(igd)
                        IN  pr' = [pr EXCEPT
                                     !.nfit = @ + 1, !.pars = Append(@, r.popt),
                                     !.ipar = <<r.popt[1], RZero, RZero, RZero>>,
                                     !.igd = igd, !.ndg = ndg, !.ivtag = 1,
                                     !.err = IF Unstable(pr.ngd, ndg)
                                             THEN "ValueError:unstable_shift" ELSE "",
                                     !.pc = IF Unstable(pr.ngd, ndg) THEN "done"
                                            ELSE "fit"]
                   ELSE pr' = [pr EXCEPT
                                 !.nfit = @ + 1, !.pars = Append(@, r.popt),
                                 !.ivtag = @ + 1,
                                 !.pc = IF pr.ivtag + 1 = Len(pr.vtags) THEN "scale"
                                        ELSE "fit"]
    /\ UNCHANGED <<cache, SeqVarsOfGrid, thr, fn>>

\* lines 270-285: the output depth scale
PScale ==
    /\ pr.pc = "scale"
    /\ LET nvtag == Len(pr.vtags)
           xsh == RDiv(RSum([i \in 1..nvtag |-> pr.pars[i][1]]), RInt(nvtag))
       IN  pr' = [pr EXCEPT !.pc = "blend",
                            !.odepth = OutputScale(pr.depth1, pr.depth2, xsh, pr.frac)]
    /\ UNCHANGED <<cache, SeqVarsOfGrid, thr, fn>>

\* lines 291-391: the vectors on the output scale and the output structure
PBlend ==
    /\ pr.pc = "blend"
    /\ LET vects == [k \in 1..Len(pr.vtags) |->
                        BlendVect(pr.odepth, pr.frac, pr.pars[k], pr.depth1,
                                  Slice(pr.atmo1[pr.vtags[k]], pr.itop1, pr.atmo1.NDEP),
                                  pr.depth2,
                                  Slice(pr.atmo2[pr.vtags[k]], pr.itop2, pr.atmo2.NDEP))]
       IN  pr' = [pr EXCEPT !.pc = "done",
                            !.out = OutProfile(pr.atmo1, pr.atmo2, pr.frac, pr.vtags,
                                               vects, Len(pr.odepth))]
    /\ UNCHANGED <<cache, SeqVarsOfGrid, thr, fn>>

\* the caller has the result or the exception
PReturn ==
    /\ pr.pc = "done"
    /\ pr' = IdlePair
    /\ UNCHANGED <<cache, SeqVarsOfGrid, thr, fn>>

PairNext ==
    \/ PCall
    \/ PSelect
    \/ PScales
    \/ PFit
    \/ PScale
    \/ PBlend
    \/ PReturn

-----------------------------------------------------------------------------
(* The sequential caller *)

DepthVals == {NoVal, "TAU", "rhox", "XX"}
GeomVals == {NoTag, "", "PP", "SPH"}
Targets == 0..MaxTarget

\* the ndep attribute and the length of the depth vectors an atmo_in object
\* carries into the call: none (0), or those of an earlier, deeper profile
NdepVals == {0, 7}

\* the atmo_in objects callers pass: every depth / interp request with no
\* geometry request, and every geometry request with depth and interp unset;
\* the latter also as objects that were filled by an earlier call
AtmoIns ==
    {a \in [depth : DepthVals, interp : DepthVals, geom : GeomVals,
            teff : {NoVal}, logg : {NoVal}, monh : {NoVal},
            ndep : NdepVals, veclen : NdepVals] :
        /\ a.geom = "" \/ (a.depth = NoVal /\ a.interp = NoVal)
        /\ a.veclen = a.ndep
        /\ a.ndep = 0 \/ (a.depth = NoVal /\ a.interp = NoVal)}

-----------------------------------------------------------------------------
(* Concurrent callers of the cache code (lines 477-513). Each attribute   *)
(* read and each setattr is one step; a thread switch can fall between    *)
(* any two of them.                                                        *)

Threads == {"t1", "t2"}

\* the two callers ask for different grid files
SourceOf(t) == IF t = "t1" THEN "atlas" ELSE "marcs"

\* the attributes in the order they are read (480-484) and stored (509-513)
CacheAttrs == <<"atmo_grid", "atmo_grid_maxdep", "atmo_grid_natmo",
                "atmo_grid_vers", "atmo_grid_file">>

Unbound == [a \in {CacheAttrs[i] : i \in 1..5} |-> Absent]

IdleThread == [pc |-> "idle", i |-> 0, reload |-> FALSE, loc |-> Unbound]

NoArgs == [Teff |-> 0, logg |-> 0, MonH |-> 0, source |-> NoVal, reload |-> FALSE,
           atmo_in |-> NoVal]

Init ==
    /\ cache = EmptyCache
    /\ pc = "idle"
    /\ args = NoArgs
    /\ atmo_in = NoVal
    /\ grid = NoVal
    /\ loaded = FALSE
    /\ depth = NoVal
    /\ interp = NoVal
    /\ Mb = Unset
    /\ Gb = Unset
    /\ Tb = Unset
    /\ icor = Unset
    /\ printed = {}
    /\ pairs = <<>>
    /\ geom = NoVal
    /\ outcome = "idle"
    /\ ret = NoVal
    /\ thr = [t \in Threads |-> IdleThread]
    /\ pr = IdlePair
    /\ fn = IdleFunc

\* an exception leaves interp_atmo_grid
Fail(kind) ==
    /\ pc' = "done"
    /\ outcome' = kind
    /\ ret' = NoVal

\* interp_atmo_grid(Teff, logg, MonH, atmo_in, reload=...) is entered
Call ==
    /\ pc = "idle"
    /\ \E T \in Targets, lg \in Targets, M \in Targets, a \in AtmoIns,
          s \in Sources, r \in BOOLEAN :
          /\ args' = [Teff |-> T, logg |-> lg, MonH |-> M, source |-> s,
                      reload |-> r, atmo_in |-> a]
          /\ atmo_in' = a
    /\ pc' = "load"
    /\ outcome' = "running"
    /\ UNCHANGED <<cache, grid, loaded, depth, interp, Mb, Gb, Tb, icor, printed,
                   pairs, geom, ret, thr, pr, fn>>

\* lines 477-513: read the cache, load the grid file when needed, store it
LoadGrid ==
    /\ pc = "load"
    /\ LET has == cache.atmo_grid # Absent
           atmo_grid == IF has THEN cache.atmo_grid ELSE NoVal
           atmo_grid_file == IF has THEN cache.atmo_grid_file ELSE NoVal
           need == NeedLoad(atmo_grid, atmo_grid_file, args.source, args.reload)
       IN  /\ loaded' = need
           /\ grid' = IF need THEN args.source ELSE atmo_grid
           /\ cache' = IF need THEN LoadedCache(args.source) ELSE cache
    /\ pc' = "resolve"
    /\ UNCHANGED <<args, atmo_in, depth, interp, Mb, Gb, Tb, icor, printed, pairs,
                   geom, outcome, ret, thr, pr, fn>>

\* lines 516-566
Resolve ==
    /\ pc = "resolve"
    /\ LET g == readsav(grid)
           d == ResolveDepth(atmo_in.depth, g)
           i == ResolveInterp(atmo_in.interp, g)
       IN  IF d.err # ""
           THEN Fail(d.err) /\ UNCHANGED <<depth, interp>>
           ELSE IF i.err # ""
           THEN Fail(i.err) /\ depth' = d.val /\ UNCHANGED interp
           ELSE /\ depth' = d.val
                /\ interp' = i.val
                /\ pc' = "bracketM"
                /\ UNCHANGED <<outcome, ret>>
    /\ UNCHANGED <<cache, args, atmo_in, grid, loaded, Mb, Gb, Tb, icor, printed,
                   pairs, geom, thr, pr, fn>>

\* lines 577-602
BracketM ==
    /\ pc = "bracketM"
    /\ LET s == MBracket(MlistOf(readsav(grid)), args.MonH)
       IN  /\ printed' = IF s.warn THEN printed \cup {<<"extrapolating_monh">>}
                         ELSE printed
           /\ IF s.err # ""
              THEN Fail(s.err) /\ UNCHANGED Mb
              ELSE Mb' = s.val /\ pc' = "bracketG" /\ UNCHANGED <<outcome, ret>>
    /\ UNCHANGED <<cache, args, atmo_in, grid, loaded, depth, interp, Gb, Tb, icor,
                   pairs, geom, thr, pr, fn>>

\* lines 608-646
BracketG ==
    /\ pc = "bracketG"
    /\ LET s == GLoop(readsav(grid), Mb, args.logg)
       IN  /\ printed' = printed \cup s.warn
           /\ IF s.err # ""
              THEN Fail(s.err) /\ UNCHANGED Gb
              ELSE Gb' = s.val /\ pc' = "bracketT" /\ UNCHANGED <<outcome, ret>>
    /\ UNCHANGED <<cache, args, atmo_in, grid, loaded, depth, interp, Mb, Tb, icor,
                   pairs, geom, thr, pr, fn>>

\* lines 649-690
BracketT ==
    /\ pc = "bracketT"
    /\ LET s == TLoop(readsav(grid), Mb, Gb, args.Teff)
       IN  /\ printed' = printed \cup s.warn
           /\ IF s.err # ""
              THEN Fail(s.err) /\ UNCHANGED Tb
              ELSE Tb' = s.val /\ pc' = "corners" /\ UNCHANGED <<outcome, ret>>
    /\ UNCHANGED <<cache, args, atmo_in, grid, loaded, depth, interp, Mb, Gb, icor,
                   pairs, geom, thr, pr, fn>>

\* lines 694-711
FindCorners ==
    /\ pc = "corners"
    /\ LET g == readsav(grid)
           ic == [iMb \in 0..1 |-> [iGb \in 0..1 |-> [iTb \in 0..1 |->
                    CornerIndex(Iwhr(g, Mb, Gb, Tb, iMb, iGb, iTb))]]]
       IN  /\ printed' = printed \cup CornerDiag(g, Mb, Gb, Tb)
           /\ IF \E c \in Corners : ic[c[1]][c[2]][c[3]] = 0
              THEN Fail("IndexError") /\ UNCHANGED icor
              ELSE icor' = ic /\ pc' = "blendM" /\ UNCHANGED <<outcome, ret>>
    /\ UNCHANGED <<cache, args, atmo_in, grid, loaded, depth, interp, Mb, Gb, Tb,
                   pairs, geom, thr, pr, fn>>


\* MOrder with the gravity and temperature indices exchanged
MOrderSwapped == << <<0, 0>>, <<0, 1>>, <<1, 0>>, <<1, 1>> >>

\* the (iGb, iTb) combinations in the order of lines 751-798
MOrder == << <<0, 0>>, <<1, 0>>, <<0, 1>>, <<1, 1>> >>

\* the fits curve_fit may fail in: none (0) or the n-th of the invocation
Failings(nvtag) == 0..nvtag

\* a blend returned or raised
AfterPair(p, next) ==
    /\ pairs' = Append(pairs, p)
    /\ IF p.err # ""
       THEN Fail(p.err)
       ELSE pc' = next /\ UNCHANGED <<outcome, ret>>

\* lines 750-798: one of the four blends along metallicity
BlendM ==
    /\ pc = "blendM"
    /\ LET g == readsav(grid)
           k == Len(pairs) + 1
           iGb == MOrder[k][1]
           iTb == MOrder[k][2]
           a1 == GridProfile(g, icor[0][iGb][iTb])
           a2 == GridProfile(g, icor[1][iGb][iTb])
           mfrac == Frac(args.MonH, a1.monh, a2.monh)
       IN  \E failing \in Failings(Len(Vtags(interp, g.tags, g.tags))) :
              AfterPair(interp_atmo_pair(k, a1, a2, mfrac, interp, g.tags, failing),
                        IF k = 4 THEN "blendG" ELSE "blendM")
    /\ UNCHANGED <<cache, args, atmo_in, grid, loaded, depth, interp, Mb, Gb, Tb,
                   icor, printed, geom, thr, pr, fn>>

\* lines 800-823: one of the two blends along gravity
BlendG ==
    /\ pc = "blendG"
    /\ LET g == readsav(grid)
           k == Len(pairs) + 1
           a1 == IF k = 5 THEN pairs[1].out ELSE pairs[3].out
           a2 == IF k = 5 THEN pairs[2].out ELSE pairs[4].out
           gfrac == Frac(args.logg, a1.logg, a2.logg)
       IN  \E failing \in Failings(Len(Vtags(interp, g.tags, g.tags))) :
              AfterPair(interp_atmo_pair(k, a1, a2, gfrac, interp, g.tags, failing),
                        IF k = 6 THEN "blendT" ELSE "blendG")
    /\ UNCHANGED <<cache, args, atmo_in, grid, loaded, depth, interp, Mb, Gb, Tb,
                   icor, printed, geom, thr, pr, fn>>

\* lines 825-837: the blend along temperature, whose result is krz
BlendT ==
    /\ pc = "blendT"
    /\ LET g == readsav(grid)
           a1 == pairs[5].out
           a2 == pairs[6].out
           tfrac == Frac(args.Teff, a1.teff, a2.teff)
       IN  \E failing \in Failings(Len(Vtags(interp, g.tags, g.tags))) :
              AfterPair(interp_atmo_pair(7, a1, a2, tfrac, interp, g.tags, failing),
                        "geometry")
    /\ UNCHANGED <<cache, args, atmo_in, grid, loaded, depth, interp, Mb, Gb, Tb,
                   icor, printed, geom, thr, pr, fn>>

\* line 851: all corners carry a usable radius and the grid a height field
Spherical(g, ic) ==
    /\ "RADIUS" \in g.tags
    /\ SetMin({g.models[ic[c[1]][c[2]][c[3]]].radius : c \in Corners}) > 1
    /\ "HEIGHT" \in g.tags

\* lines 838-862
Geometry ==
    /\ pc = "geometry"
    /\ geom' = IF Spherical(readsav(grid), icor) THEN "SPH" ELSE "PP"
    /\ pc' = "finish"
    /\ UNCHANGED <<cache, args, atmo_in, grid, loaded, depth, interp, Mb, Gb, Tb,
                   icor, printed, pairs, outcome, ret, thr, pr, fn>>

\* lines 874-883: "conflict" raises, "override" prints, "" does neither
GeomCheck(a_geom, g_geom) ==
    IF a_geom # NoTag /\ a_geom # "" /\ a_geom # g_geom
    THEN IF a_geom = "SPH" THEN "conflict" ELSE "override"
    ELSE ""

\* line 884: the value stored in atmo.geom
GeomStored(a_geom, g_geom) == g_geom

\* line 887: the fields of krz that are not copied to atmo
discard == {"MODTYP", "SPHERE", "NDEP"}

\* SME_Structure attribute assignment: the object is an open set of named
\* fields, and assigning one leaves the others as they are
setattr(obj, field, value) == [obj EXCEPT ![field] = value]

\* the fields of krz (line 838), the depth vectors standing as one, and the
\* field of the model each is kept in
ktags == <<"TEFF", "LOGG", "MONH", "TEMP", "NDEP">>

FieldOf(tag) ==
    CASE tag = "TEFF" -> "teff"
      [] tag = "LOGG" -> "logg"
      [] tag = "MONH" -> "monh"
      [] tag = "TEMP" -> "veclen"
      [] tag = "NDEP" -> "ndep"

\* krz[tag]; a depth vector is held by its length
KrzValue(krz, tag) ==
    CASE tag = "TEFF" -> krz.teff
      [] tag = "LOGG" -> krz.logg
      [] tag = "MONH" -> krz.monh
      [] tag = "TEMP" -> krz.ndep
      [] tag = "NDEP" -> krz.ndep

\* lines 888-890 from the k-th tag on: the fields of krz that are not
\* discarded are stored on atmo; NDEP is discarded, so the attribute ndep of
\* atmo keeps the value it had
RECURSIVE CopyFields(_, _, _)
CopyFields(k, atmo, krz) ==
    IF k > Len(ktags) THEN atmo
    ELSE IF ktags[k] \in discard THEN CopyFields(k + 1, atmo, krz)
    ELSE CopyFields(k + 1, setattr(atmo, FieldOf(ktags[k]), KrzValue(krz, ktags[k])), krz)

\* lines 864-892: atmo is atmo_in itself; its fields are assigned in place
Finish ==
    /\ pc = "finish"
    /\ LET krz == pairs[7].out
           chk == GeomCheck(atmo_in.geom, geom)
           a1 == setattr(setattr(atmo_in, "depth", depth), "interp", interp)
           a2 == CopyFields(1, setattr(a1, "geom", GeomStored(atmo_in.geom, geom)), krz)
       IN  IF chk = "conflict"
           THEN /\ atmo_in' = a1
                /\ Fail("ValueError:geom")
                /\ UNCHANGED printed
           ELSE /\ atmo_in' = a2
                /\ printed' = IF chk = "override"
                              THEN printed \cup {<<"geom_overrides">>} ELSE printed
                /\ pc' = "done"
                /\ outcome' = "ok"
                /\ ret' = "atmo_in"
    /\ UNCHANGED <<cache, args, grid, loaded, depth, interp, Mb, Gb, Tb, icor,
                   pairs, geom, thr, pr, fn>>

\* the call is over: its frame is dropped, the cache stays
Return ==
    /\ pc = "done"
    /\ pc' = "idle"
    /\ args' = NoArgs
    /\ atmo_in' = NoVal
    /\ outcome' = "idle"
    /\ grid' = NoVal /\ loaded' = FALSE /\ depth' = NoVal /\ interp' = NoVal
    /\ Mb' = Unset /\ Gb' = Unset /\ Tb' = Unset /\ icor' = Unset
    /\ printed' = {} /\ pairs' = <<>> /\ geom' = NoVal /\ ret' = NoVal
    /\ UNCHANGED <<cache, thr, pr, fn>>

Next ==
    \/ Call
    \/ LoadGrid
    \/ Resolve
    \/ BracketM
    \/ BracketG
    \/ BracketT
    \/ FindCorners
    \/ BlendM
    \/ BlendG
    \/ BlendT
    \/ Geometry
    \/ Finish
    \/ Return

Spec == Init /\ [][Next]_vars

-----------------------------------------------------------------------------
(* Steps of a concurrent caller t *)

SeqVars == <<pc, args, atmo_in, grid, loaded, depth, interp, Mb, Gb, Tb, icor,
             printed, pairs, geom, outcome, ret, pr, fn>>

\* interp_atmo_grid is entered by thread t
CEnter(t) ==
    /\ thr[t].pc = "idle"
    /\ \E r \in BOOLEAN :
          thr' = [thr EXCEPT ![t] = [pc |-> "hasattr", i |-> 0, reload |-> r,
                                     loc |-> Unbound]]
    /\ UNCHANGED <<cache, SeqVars>>

\* line 479, and lines 486-487 when the attribute is missing
CHasattr(t) ==
    /\ thr[t].pc = "hasattr"
    /\ thr' = [thr EXCEPT ![t] =
                 IF cache.atmo_grid # Absent
                 THEN [@ EXCEPT !.pc = "read", !.i = 1]
                 ELSE [@ EXCEPT !.pc = "decide",
                                !.loc = [@ EXCEPT !.atmo_grid = NoVal,
                                                  !.atmo_grid_file = NoVal]]]
    /\ UNCHANGED <<cache, SeqVars>>

\* lines 480-484: one attribute read; AttributeError when it is not there
CRead(t) ==
    /\ thr[t].pc = "read"
    /\ LET a == CacheAttrs[thr[t].i]
       IN  thr' = [thr EXCEPT ![t] =
                     IF cache[a] = Absent
                     THEN [@ EXCEPT !.pc = "raised"]
                     ELSE [@ EXCEPT !.loc = [@ EXCEPT ![a] = cache[a]],
                                    !.i = IF thr[t].i = 5 THEN 0 ELSE thr[t].i + 1,
                                    !.pc = IF thr[t].i = 5 THEN "decide" ELSE "read"]]
    /\ UNCHANGED <<cache, SeqVars>>

\* lines 498-499
CDecide(t) ==
    /\ thr[t].pc = "decide"
    /\ thr' = [thr EXCEPT ![t].pc =
                 IF NeedLoad(thr[t].loc.atmo_grid, thr[t].loc.atmo_grid_file,
                             SourceOf(t), thr[t].reload)
                 THEN "readsav" ELSE "use"]
    /\ UNCHANGED <<cache, SeqVars>>

\* lines 500-506: the locals now hold what was read from the thread's file
CReadsav(t) ==
    /\ thr[t].pc = "readsav"
    /\ thr' = [thr EXCEPT ![t] = [@ EXCEPT !.pc = "store", !.i = 1,
                                           !.loc = LoadedCache(SourceOf(t))]]
    /\ UNCHANGED <<cache, SeqVars>>

\* lines 509-513: one setattr
CStore(t) ==
    /\ thr[t].pc = "store"
    /\ LET a == CacheAttrs[thr[t].i]
       IN  cache' = [cache EXCEPT ![a] = thr[t].loc[a]]
    /\ thr' = [thr EXCEPT ![t] = [@ EXCEPT !.i = IF thr[t].i = 5 THEN 0 ELSE thr[t].i + 1,
                                           !.pc = IF thr[t].i = 5 THEN "use" ELSE "store"]]
    /\ UNCHANGED SeqVars

\* line 516 on: the thread works with its local atmo_grid, or has raised;
\* then the call is over
CReturn(t) ==
    /\ thr[t].pc \in {"use", "raised"}
    /\ thr' = [thr EXCEPT ![t] = IdleThread]
    /\ UNCHANGED <<cache, SeqVars>>

ConcNext ==
    \E t \in Threads :
        \/ CEnter(t)
        \/ CHasattr(t)
        \/ CRead(t)
        \/ CDecide(t)
        \/ CReadsav(t)
        \/ CStore(t)
        \/ CReturn(t)

SpecConc == Init /\ [][ConcNext]_vars

\* direct calls of interp_atmo_func
SpecFunc == Init /\ [][FuncNext]_vars

\* direct calls of interp_atmo_pair
SpecPair == Init /\ [][PairNext]_vars

-----------------------------------------------------------------------------
(* Properties *)

\* positions of the caller before the three bracket searches are over
BeforeCorners == {"load", "resolve", "bracketM", "bracketG", "bracketT"}

MBelowMin ==
    /\ interp # NoVal
    /\ args.MonH < SetMin(MlistOf(readsav(grid)))

GBelowMin ==
    /\ Mb # Unset
    /\ \E iMb \in 0..1 : args.logg < SetMin(GlistOf(readsav(grid), Mb[iMb + 1]))

TAboveMax ==
    /\ Gb # Unset
    /\ \E iMb \in 0..1, iGb \in 0..1 :
          args.Teff > SetMax(TlistOf(readsav(grid), Mb[iMb + 1], Gb[iMb][iGb + 1]))

\* C1: a target below the grid's minimum metallicity, below the minimum
\* gravity at a bracketing metallicity, or above the maximum temperature at
\* one of the four (metallicity, gravity) bracket combinations makes the
\* call fail: it never gets past the bracket searches, ends with an
\* exception, returns nothing and runs no interp_atmo_pair.
C1_RangeErrorIsFatal ==
    (MBelowMin \/ GBelowMin \/ TAboveMax) =>
        /\ pc \in BeforeCorners \cup {"done"}
        /\ pc = "done" => outcome \notin {"ok", "running"}
        /\ ret = NoVal
        /\ pairs = <<>>

\* a call that ended on the temperature ceiling after both other searches
\* had succeeded
C1_Witness ==
    /\ pc = "done"
    /\ outcome = "RangeError"
    /\ TAboveMax
    /\ ~MBelowMin
    /\ ~GBelowMin
    /\ pairs = <<>>

\* the two largest / two smallest distinct values of an axis, when it has two
TwoLargest(S) ==
    LET rest == S \ {SetMax(S)}
    IN  IF rest = {} THEN Unset ELSE <<SetMax(rest), SetMax(S)>>

TwoSmallest(S) ==
    LET rest == S \ {SetMin(S)}
    IN  IF rest = {} THEN Unset ELSE <<SetMin(S), SetMin(rest)>>

GlistAt(iMb) == GlistOf(readsav(grid), Mb[iMb + 1])
TlistAt(iMb, iGb) == TlistOf(readsav(grid), Mb[iMb + 1], Gb[iMb][iGb + 1])

\* C2: a target beyond the permitted side of an axis is advisory: the
\* search that meets it prints the extrapolation warning, takes the two
\* largest (metallicity, gravity) or two smallest (temperature) distinct
\* values of that axis as the bracket, and does not abort the call (the
\* search may still end in the range error of another sub-grid).
C2_ExtrapolationNeverAborts ==
    /\ (interp # NoVal /\ pc # "bracketM"
            /\ args.MonH > SetMax(MlistOf(readsav(grid)))) =>
          /\ <<"extrapolating_monh">> \in printed
          /\ Mb = TwoLargest(MlistOf(readsav(grid)))
    /\ (Mb # Unset /\ pc # "bracketG"
            /\ \E iMb \in 0..1 : args.logg > SetMax(GlistAt(iMb))) =>
          \/ Gb = Unset /\ outcome = "RangeError"
          \/ /\ Gb # Unset
             /\ \A iMb \in 0..1 : args.logg > SetMax(GlistAt(iMb)) =>
                   /\ <<"extrapolating_logg", iMb>> \in printed
                   /\ Gb[iMb] = TwoLargest(GlistAt(iMb))
    /\ (Gb # Unset /\ pc # "bracketT"
            /\ \E iMb \in 0..1, iGb \in 0..1 : args.Teff < SetMin(TlistAt(iMb, iGb))) =>
          \/ Tb = Unset /\ outcome = "RangeError"
          \/ /\ Tb # Unset
             /\ \A iMb \in 0..1, iGb \in 0..1 :
                   args.Teff < SetMin(TlistAt(iMb, iGb)) =>
                      /\ <<"extrapolating_teff", iMb, iGb>> \in printed
                      /\ Tb[iMb][iGb] = TwoSmallest(TlistAt(iMb, iGb))

\* the nearest grid values on each side of an in-range target
NearestPair(S, x) == <<SetMax({v \in S : v <= x}), SetMin({v \in S : v >= x})>>
InRange(S, x) == SetMin(S) <= x /\ x <= SetMax(S)

\* C3: for a target inside the range of an axis the bracket is the nearest
\* pair, lo the largest distinct value <= target and up the smallest
\* distinct value >= target: for the metallicity bracket, the gravity
\* bracket at each bracketing metallicity and the temperature bracket at
\* each (metallicity, gravity) combination.
C3_NearestPairBracket ==
    /\ (Mb # Unset /\ InRange(MlistOf(readsav(grid)), args.MonH)) =>
          Mb = NearestPair(MlistOf(readsav(grid)), args.MonH)
    /\ Gb # Unset =>
          \A iMb \in 0..1 : InRange(GlistAt(iMb), args.logg) =>
             Gb[iMb] = NearestPair(GlistAt(iMb), args.logg)
    /\ Tb # Unset =>
          \A iMb \in 0..1, iGb \in 0..1 : InRange(TlistAt(iMb, iGb), args.Teff) =>
             Tb[iMb][iGb] = NearestPair(TlistAt(iMb, iGb), args.Teff)

\* the grid index of corner (iMb, iGb, iTb) as a profile origin
CornerOrg(iMb, iGb, iTb) == <<"grid", icor[iMb][iGb][iTb]>>

\* C4: a successful call has invoked interp_atmo_pair exactly seven times:
\* first the four blends along metallicity, one per (gravity, temperature)
\* bracket combination, each of the low- with the high-metallicity corner;
\* then two blends along gravity of the four metallicity results; then one
\* blend along temperature of the two gravity results, whose output is the
\* final profile. No call invokes it more than seven times.
C4_SevenBlendsInOrder ==
    /\ Len(pairs) <= 7
    /\ outcome = "ok" =>
          /\ Len(pairs) = 7
          /\ \A k \in 1..7 : pairs[k].err = "" /\ pairs[k].out.org = <<"pair", k>>
          /\ pairs[1].atmo1 = CornerOrg(0, 0, 0) /\ pairs[1].atmo2 = CornerOrg(1, 0, 0)
          /\ pairs[2].atmo1 = CornerOrg(0, 1, 0) /\ pairs[2].atmo2 = CornerOrg(1, 1, 0)
          /\ pairs[3].atmo1 = CornerOrg(0, 0, 1) /\ pairs[3].atmo2 = CornerOrg(1, 0, 1)
          /\ pairs[4].atmo1 = CornerOrg(0, 1, 1) /\ pairs[4].atmo2 = CornerOrg(1, 1, 1)
          /\ \A k \in 1..4 : /\ pairs[k].v1[3] = RInt(Mb[1])
                             /\ pairs[k].v2[3] = RInt(Mb[2])
          /\ pairs[5].atmo1 = <<"pair", 1>> /\ pairs[5].atmo2 = <<"pair", 2>>
          /\ pairs[6].atmo1 = <<"pair", 3>> /\ pairs[6].atmo2 = <<"pair", 4>>
          /\ pairs[7].atmo1 = <<"pair", 5>> /\ pairs[7].atmo2 = <<"pair", 6>>
          /\ atmo_in.teff = pairs[7].out.teff
          /\ atmo_in.logg = pairs[7].out.logg
          /\ atmo_in.monh = pairs[7].out.monh

\* a successful call whose eight corners are eight different grid entries
C4_Witness ==
    /\ outcome = "ok"
    /\ Len(pairs) = 7
    /\ Cardinality({icor[c[1]][c[2]][c[3]] : c \in Corners}) = 8

\* the blend axis of the k-th invocation, as an index into <<teff, logg, monh>>
AxisOf(k) == IF k <= 4 THEN 3 ELSE IF k <= 6 THEN 2 ELSE 1

SameOnAxis(k) == pairs[k].v1[AxisOf(k)] = pairs[k].v2[AxisOf(k)]

Matching(c) ==
    LET g == readsav(grid)
    IN  {i \in Indices(g) :
            <<g.models[i].teff, g.models[i].logg, g.models[i].monh>>
                = <<Tb[c[1]][c[2]][c[3] + 1], Gb[c[1]][c[2] + 1], Mb[c[1] + 1]>>}

\* C6: once the three bracket searches have succeeded, every one of the 8
\* corners resolves to a grid index whose (teff, logg, monh) are the
\* corner's bracket values; when the entries matching a corner are not
\* exactly one, the diagnostic is printed and the first match is used, and
\* the call does not fail on it.
C6_CornersResolve ==
    /\ (Tb # Unset /\ pc # "corners") => icor # Unset /\ outcome # "IndexError"
    /\ icor # Unset =>
          \A c \in Corners :
             /\ icor[c[1]][c[2]][c[3]] \in Matching(c)
             /\ Cardinality(Matching(c)) # 1 =>
                   /\ <<"models_in_grid", c, Cardinality(Matching(c))>> \in printed
                   /\ \A i \in Matching(c) : icor[c[1]][c[2]][c[3]] <= i

\* a successful call with a corner key that two grid entries carry
C6_Witness ==
    /\ outcome = "ok"
    /\ icor # Unset
    /\ \E c \in Corners : Cardinality(Matching(c)) = 2

\* C7: a caller's geom of 'SPH' with a computed 'PP' fails the call; a
\* caller's geom of 'PP' with a computed 'SPH' succeeds with a diagnostic
\* and the returned profile's geom is the caller's 'PP'.
C7_CallerGeometryWins ==
    (pc = "done" /\ geom # NoVal) =>
        /\ (args.atmo_in.geom = "SPH" /\ geom = "PP") =>
              outcome \notin {"ok", "running"} /\ ret = NoVal
        /\ (args.atmo_in.geom = "PP" /\ geom = "SPH") =>
              /\ outcome = "ok"
              /\ <<"geom_overrides">> \in printed
              /\ atmo_in.geom = "PP"

\* the precedence of the depth variable: caller, grid default, RHOX, TAU
ExpectedDepth(a, g) ==
    IF a.depth # NoVal THEN Upper(a.depth)
    ELSE IF "DEPTH" \in g.tags /\ g.depth # NoVal THEN Upper(g.depth)
    ELSE IF "RHOX" \in g.tags THEN "RHOX"
    ELSE IF "TAU" \in g.tags THEN "TAU"
    ELSE NoVal

\* the precedence of the interpolation variable: caller, grid default, TAU, RHOX
ExpectedInterp(a, g) ==
    IF a.interp # NoVal THEN Upper(a.interp)
    ELSE IF "INTERP" \in g.tags /\ g.interp # NoVal THEN Upper(g.interp)
    ELSE IF "TAU" \in g.tags THEN "TAU"
    ELSE IF "RHOX" \in g.tags THEN "RHOX"
    ELSE NoVal

Legal(v, g) == v \in {"TAU", "RHOX"} /\ v \in g.tags

\* C8: depth and interp are resolved by the four-level precedence; the call
\* fails when a resolved value is missing, illegal or names no grid field,
\* and otherwise the resolved values are used for the blends and reported
\* on the output.
C8_DepthInterpPrecedence ==
    pc \notin {"idle", "load", "resolve"} =>
        LET g == readsav(grid)
            d == ExpectedDepth(args.atmo_in, g)
            i == ExpectedInterp(args.atmo_in, g)
        IN  IF Legal(d, g) /\ Legal(i, g)
            THEN /\ depth = d
                 /\ interp = i
                 /\ \A k \in 1..Len(pairs) : pairs[k].interpvar = i
                 /\ outcome = "ok" => atmo_in.depth = d /\ atmo_in.interp = i
            ELSE /\ pc = "done"
                 /\ outcome \notin {"ok", "running"}
                 /\ pairs = <<>>

\* C9: in sequential calls the grid file is read exactly when the cache is
\* empty, the cached file name differs from atmo_in.source, or reload is
\* asked for; a call that does not read leaves the cache alone. After the
\* load step the grid in use is the one of atmo_in.source and the cached
\* file name is atmo_in.source.
C9_LoadIffCacheMiss ==
    [][(pc = "load" /\ pc' = "resolve") =>
          /\ loaded' <=> (\/ cache.atmo_grid = Absent
                          \/ cache.atmo_grid_file # args.source
                          \/ args.reload)
          /\ ~loaded' => cache' = cache
          /\ grid' = args.source
          /\ cache'.atmo_grid = args.source
          /\ cache'.atmo_grid_file = args.source]_vars

\* a call that found its source in the cache and did not read the file
C9_Witness ==
    /\ pc = "resolve"
    /\ ~loaded
    /\ ~args.reload
    /\ grid = args.source
    /\ cache.atmo_grid_file = args.source

\* C10: with two concurrent callers asking for different sources, no caller
\* proceeds with a grid loaded from another source than its own, and none
\* sees cached values that come from different loads.
C10_NoCacheRace ==
    \A t \in Threads :
        /\ thr[t].pc = "use" =>
              \A i \in 1..5 : thr[t].loc[CacheAttrs[i]] = SourceOf(t)
        /\ thr[t].pc = "decide" =>
              \A i \in 1..5, j \in 1..5 :
                 (thr[t].loc[CacheAttrs[i]] \notin {Absent, NoVal}
                    /\ thr[t].loc[CacheAttrs[j]] \notin {Absent, NoVal}) =>
                       thr[t].loc[CacheAttrs[i]] = thr[t].loc[CacheAttrs[j]]

\* C11: the profile a successful call returns is internally consistent: its
\* ndep equals the length of the depth vectors stored on it, whatever ndep
\* the caller's atmo_in carried before the call.
C11_NdepMatchesVectors ==
    (pc = "done" /\ outcome = "ok" /\ ret = "atmo_in") =>
        atmo_in.ndep = atmo_in.veclen

\* C12: the profile a successful call returns is a new object, not the
\* caller's atmo_in, and the call leaves every field of atmo_in as it was.
C12_ReturnsNewObject ==
    (pc = "done" /\ outcome = "ok") =>
        /\ ret # "atmo_in"
        /\ atmo_in = args.atmo_in

\* C13: a call that raises has modified no field of the caller's atmo_in.
C13_FailureLeavesInputUntouched ==
    (pc = "done" /\ outcome # "ok") => atmo_in = args.atmo_in

\* the piecewise-linear interpolant of the table (x, y) at xn, continued
\* linearly beyond both ends of the table
PiecewiseLinear(x, y, xn) ==
    LET n == Len(x)
        lo == IF RLeq(xn, x[1]) THEN 1
              ELSE IF RLeq(x[n], xn) THEN n - 1
              ELSE CHOOSE i \in 1..(n - 1) : RLeq(x[i], xn) /\ RLeq(xn, x[i + 1])
        t == RDiv(RSub(xn, x[lo]), RSub(x[lo + 1], x[lo]))
    IN  RAdd(RMul(RSub(ROne, t), y[lo]), RMul(t, y[lo + 1]))

ZeroShiftCall == fn.pc = "done" /\ fn.par = NoShift /\ fn.y1 = Unset

\* C20 as stated: interp_atmo_func called with all shift parameters zero and
\* no y1 returns the piecewise-linear interpolation of (x2, y2), with linear
\* extrapolation outside the table, at every point of x1.
C20_ZeroShiftIsLinearInterpolation ==
    ZeroShiftCall =>
        \A i \in 1..Len(fn.x1) : fn.y[i] = PiecewiseLinear(fn.x2, fn.y2, fn.x1[i])

\* C20 as amended: with all shift parameters zero and no y1 the result is
\* the piecewise-linear interpolation of (x2, y2), with linear extrapolation
\* outside the table, at the first ndep points of x1 (at all of them when
\* ndep is not passed), and 0 at the points of x1 beyond ndep.
C20_ZeroShiftIsLinearInterpolationUpToNdep ==
    ZeroShiftCall =>
        \A i \in 1..Len(fn.x1) :
            fn.y[i] = IF fn.ndep = Unset \/ i <= fn.ndep[1]
                      THEN PiecewiseLinear(fn.x2, fn.y2, fn.x1[i])
                      ELSE RZero

\* a zero-shift call without ndep that evaluated a point inside, a point
\* below and a point above the table
C20_Witness ==
    /\ ZeroShiftCall
    /\ fn.ndep = Unset
    /\ \E i, j, k \in 1..Len(fn.x1) :
          /\ RLt(fn.x1[i], fn.x2[1])
          /\ RLt(fn.x2[1], fn.x1[j]) /\ RLt(fn.x1[j], fn.x2[Len(fn.x2)])
          /\ RLt(fn.x2[Len(fn.x2)], fn.x1[k])

\* a direct call of interp_atmo_pair is past the choice of the variable
PairChosen == pr.pc \notin {"idle", "select"}

BothHave(tag) == tag \in pr.atmo1.tags /\ tag \in pr.atmo2.tags

\* C14: interp_atmo_pair interpolates on the variable the caller names; when
\* the caller names none (the parameter is left at its default, or is
\* None) it takes TAU if both profiles have TAU and RHOX otherwise; it
\* fails when neither TAU nor RHOX is in both profiles.
C14_InterpvarSelection ==
    PairChosen =>
        IF ~BothHave("TAU") /\ ~BothHave("RHOX")
        THEN pr.pc = "done" /\ pr.err # ""
        ELSE /\ pr.arg \in {"TAU", "RHOX"} => pr.interpvar = pr.arg
             /\ pr.arg \in {"", NoVal} =>
                   /\ pr.interpvar = IF BothHave("TAU") THEN "TAU" ELSE "RHOX"
                   /\ pr.err # "ValueError:interpvar"

\* the failures of interp_atmo_pair that report a missing field
SchemaErrors == {"ValueError:no_depth_scale", "AttributeError",
                 "ValueError:atmo1_does_not_contain",
                 "ValueError:atmo2_does_not_contain"}

\* C15: a call of interp_atmo_pair that ends in the failure for a field
\* missing from one of the profiles has not invoked interp_atmo_constrained.
C15_SchemaErrorBeforeAnyFit ==
    (pr.pc = "done" /\ pr.err \in SchemaErrors) => pr.nfit = 0

\* the temperature fit of a direct call has returned
TempFitted == PairChosen /\ pr.pc # "scales" /\ pr.ndg >= 0

\* C16: after the temperature fit the valid points are the points of
\* profile 1 inside the depth range of profile 2 shifted by the fitted
\* horizontal shift; when fewer than 2 of them remain the call fails with
\* "unstable shift in temperature" and no further quantity is fitted.
C16_UnstableShiftFails ==
    TempFitted =>
        /\ pr.igd = {i \in 1..Len(pr.depth1) :
                       /\ RLeq(RAdd(pr.depth2[1], pr.pars[1][1]), pr.depth1[i])
                       /\ RLeq(pr.depth1[i],
                               RAdd(pr.depth2[Len(pr.depth2)], pr.pars[1][1]))}
        /\ Cardinality(pr.igd) < 2 =>
              /\ pr.pc = "done"
              /\ pr.err = "ValueError:unstable_shift"
              /\ pr.nfit = 1

\* the mean of the fitted horizontal shifts
MeanShift == RDiv(RSum(Array([k \in 1..Len(pr.pars) |-> pr.pars[k][1]])),
                  RInt(Len(pr.pars)))

\* the output depth scale of a direct call has been built
Scaled == pr.pc \in {"blend", "done"} /\ pr.odepth # Unset

\* C17: with n1 and n2 the depth points of the two profiles after the top
\* trim, the output depth scale is the shifted scale of profile 2 when
\* n1 > n2, the shifted scale of profile 1 when n1 < n2 and the blend by
\* frac of the two shifted scales when n1 = n2; it has min(n1, n2) points,
\* and so have NDEP and every fitted vector of the returned profile.
C17_NeverUpSampled ==
    Scaled =>
        LET n1 == Len(pr.depth1)
            n2 == Len(pr.depth2)
            n == IF n1 < n2 THEN n1 ELSE n2
            s1(i) == RSub(pr.depth1[i], RMul(MeanShift, pr.frac))
            s2(i) == RAdd(pr.depth2[i], RMul(MeanShift, RSub(ROne, pr.frac)))
        IN  /\ Len(pr.odepth) = n
            /\ n1 = pr.atmo1.NDEP - pr.itop1 /\ n2 = pr.atmo2.NDEP - pr.itop2
            /\ \A i \in 1..n :
                  pr.odepth[i] =
                     IF n1 > n2 THEN s2(i)
                     ELSE IF n1 < n2 THEN s1(i)
                     ELSE RAdd(RMul(s1(i), RSub(ROne, pr.frac)), RMul(s2(i), pr.frac))
            /\ pr.out # Unset =>
                  /\ pr.out.NDEP = n
                  /\ \A k \in 1..Len(pr.vtags) : Len(pr.out[pr.vtags[k]]) = n

\* a returned blend of a profile of 4 depth points with one of 3, on a
\* scale that was shifted
C17_Witness ==
    /\ pr.pc = "done" /\ pr.err = ""
    /\ Len(pr.depth1) = 4 /\ Len(pr.depth2) = 3
    /\ pr.out.NDEP = 3
    /\ MeanShift # RZero
    /\ pr.frac = RHalf

\* a direct call with the default itop blended a profile with itself and
\* returned
SelfBlend == pr.pc = "done" /\ pr.err = "" /\ pr.atmo1 = pr.atmo2 /\ pr.itop = 0

\* C18 as stated: interp_atmo_pair(p, p, frac) returns a profile identical
\* to p, for any frac: the same number of depth points, the same depth
\* vectors and the same TEMP, XNE, XNA and RHO index for index.
C18_SelfBlendIsIdentity ==
    SelfBlend => pr.out = pr.atmo1

\* profile p without its first itop depth points
TopTrimmed(p, itop) ==
    [tag \in DOMAIN p |->
        IF tag = "NDEP" THEN p.NDEP - itop
        ELSE IF tag \in VectorTags /\ tag \in p.tags
        THEN SubSeq(p[tag], itop + 1, p.NDEP)
        ELSE p[tag]]

\* C18 as amended: interp_atmo_pair(p, p, frac), when it returns, returns p
\* without the top layers that the trim of the interpolation depth scale
\* skips: all depth vectors and quantities of p from the first kept layer
\* on, index for index, and the number of kept layers as NDEP; it is p
\* itself when no layer is skipped.
C18_SelfBlendIsTrimmedInput ==
    SelfBlend =>
        /\ pr.out = TopTrimmed(pr.atmo1, pr.itop1)
        /\ pr.itop1 = 0 => pr.out = pr.atmo1

\* a returned self-blend of a profile that lost its top layer, at frac 1/2
C18_Witness ==
    /\ SelfBlend
    /\ pr.itop1 = 1
    /\ pr.frac = RHalf
    /\ pr.out.NDEP = pr.atmo1.NDEP - 1

\* the k-th fitted vector of profile 1 and of profile 2 after the top trim
Vect1(k) == SubSeq(pr.atmo1[pr.vtags[k]], pr.itop1 + 1, pr.atmo1.NDEP)
Vect2(k) == SubSeq(pr.atmo2[pr.vtags[k]], pr.itop2 + 1, pr.atmo2.NDEP)

\* C19: at frac = 0 the returned quantities are those of profile 1: every
\* fitted vector of the result is profile 1's curve read at the output
\* depths, and on profile 1's own depth scale (n1 <= n2) it is profile 1's
\* vector index for index; at frac = 1 the same holds with profile 2
\* (n1 >= n2), also for profiles with different numbers of depth points.
C19_FractionExtremes ==
    (pr.pc = "done" /\ pr.err = "") =>
        /\ pr.frac = RZero =>
              \A k \in 1..Len(pr.vtags) :
                 /\ \A j \in 1..Len(pr.odepth) :
                       pr.out[pr.vtags[k]][j] =
                          PiecewiseLinear(pr.depth1, Vect1(k), pr.odepth[j])
                 /\ Len(pr.depth1) <= Len(pr.depth2) => pr.out[pr.vtags[k]] = Vect1(k)
        /\ pr.frac = ROne =>
              \A k \in 1..Len(pr.vtags) :
                 /\ \A j \in 1..Len(pr.odepth) :
                       pr.out[pr.vtags[k]][j] =
                          PiecewiseLinear(pr.depth2, Vect2(k), pr.odepth[j])
                 /\ Len(pr.depth1) >= Len(pr.depth2) => pr.out[pr.vtags[k]] = Vect2(k)

\* a blend at frac = 0 of two different profiles with different numbers of
\* depth points, returned on the shifted scale of the second
C19_Witness ==
    /\ pr.pc = "done" /\ pr.err = ""
    /\ pr.frac = RZero
    /\ Len(pr.depth1) > Len(pr.depth2)
    /\ pr.odepth # pr.depth2
    /\ pr.out.TEMP # Vect2(1)


-----------------------------------------------------------------------------
(* The scalars of the result, the degenerate brackets, the fractions *)

\* C26: the profile a successful interp_atmo_grid call returns carries the
\* requested Teff, logg and [M/H] in its teff, logg and monh, also when the
\* call extrapolates and when the gravity or temperature brackets differ
\* between the bracket combinations.
C26_ScalarsEqualTargets ==
    outcome = "ok" =>
        /\ atmo_in.teff = RInt(args.Teff)
        /\ atmo_in.logg = RInt(args.logg)
        /\ atmo_in.monh = RInt(args.MonH)

\* C27: a target equal to a value of the relevant sub-grid gives the
\* degenerate bracket lo = up = target, on each of the three axes and for
\* every node of the axis, the smallest and the largest included; the
\* search does not fail on such a target.
C27_DegenerateBrackets ==
    /\ (interp # NoVal /\ pc # "bracketM"
            /\ args.MonH \in MlistOf(readsav(grid))) =>
          Mb = <<args.MonH, args.MonH>>
    /\ (Mb # Unset /\ pc # "bracketG"
            /\ \A iMb \in 0..1 : args.logg \in GlistAt(iMb)) =>
          /\ Gb # Unset
          /\ \A iMb \in 0..1 : Gb[iMb] = <<args.logg, args.logg>>
    /\ (Gb # Unset /\ pc # "bracketT"
            /\ \A iMb \in 0..1, iGb \in 0..1 : args.Teff \in TlistAt(iMb, iGb)) =>
          /\ Tb # Unset
          /\ \A iMb \in 0..1, iGb \in 0..1 : Tb[iMb][iGb] = <<args.Teff, args.Teff>>

\* no extrapolation warning was printed by the running call
NoExtrapolation ==
    \A w \in printed :
        w[1] \notin {"extrapolating_monh", "extrapolating_logg", "extrapolating_teff"}

\* C28: in a call that printed no extrapolation warning, every fraction
\* handed to interp_atmo_pair (four mfrac, two gfrac, one tfrac) lies in
\* [0, 1], also when the gravity or the temperature brackets differ between
\* the bracket combinations.
C28_FractionsInUnitInterval ==
    NoExtrapolation =>
        \A k \in 1..Len(pairs) :
            RLeq(RZero, pairs[k].frac) /\ RLeq(pairs[k].frac, ROne)

\* a successful call without extrapolation whose gravity brackets differ
\* between the two metallicities and whose fractions along all three axes
\* lie strictly inside the interval
C28_Witness ==
    /\ outcome = "ok"
    /\ NoExtrapolation
    /\ Gb[0] # Gb[1]
    /\ \E k \in 1..4 : RLt(RZero, pairs[k].frac) /\ RLt(pairs[k].frac, ROne)
    /\ \E k \in 5..6 : RLt(RZero, pairs[k].frac) /\ RLt(pairs[k].frac, ROne)
    /\ RLt(RZero, pairs[7].frac) /\ RLt(pairs[7].frac, ROne)

-----------------------------------------------------------------------------
(* The shift fits of interp_atmo_pair *)

\* C21: every parameter vector a fit of interp_atmo_pair returns has the
\* initial value, zero, at index 2 and at index 3: the fit varies the
\* horizontal shift (index 0) and the vertical shift (index 1) only.
C21_ScaleParameterFixed ==
    pr.pc # "idle" =>
        \A k \in 1..Len(pr.pars) : pr.pars[k][3] = RZero /\ pr.pars[k][4] = RZero

\* the next fit of the running call: the vector it fits, the abscissae
\* handed to curve_fit (the restricted depth points and the synthetic point
\* x = 0), and the residual of the synthetic point (y = 0) for parameters q
FitPending == pr.pc = "fit" /\ pr.vtags[pr.ivtag + 1] \in pr.atmo1.tags \cap pr.atmo2.tags

FitAbscissae == Append(Select(pr.depth1, pr.igd), RZero)

ConstraintResidual(q) ==
    LET vtag == pr.vtags[pr.ivtag + 1]
        vect1 == Slice(pr.atmo1[vtag], pr.itop1, pr.atmo1.NDEP)
        vect2 == Slice(pr.atmo2[vtag], pr.itop2, pr.atmo2.NDEP)
        f == interp_atmo_func(FitAbscissae, q, <<pr.ngd>>, pr.depth2, vect2, vect1)
    IN  RSub(RZero, f[Len(FitAbscissae)])

\* C22: the synthetic point (0, 0) appended for the constrained parameter,
\* the horizontal shift, pulls it toward zero: the residual of that point
\* is non-zero whenever the horizontal shift is non-zero, and does not
\* shrink when the magnitude of the shift grows.
C22_ConstraintPenalisesShift ==
    FitPending =>
        \A q \in FitCandidates(pr.ipar) :
            /\ q[1] # RZero => ConstraintResidual(q) # RZero
            /\ \A r \in FitCandidates(pr.ipar) :
                  RLeq(RAbs(q[1]), RAbs(r[1])) =>
                     RLeq(RAbs(ConstraintResidual(q)), RAbs(ConstraintResidual(r)))

-----------------------------------------------------------------------------
(* The blend of one quantity and the correction of its deep end *)

\* a direct call has returned a profile
Returned == pr.pc = "done" /\ pr.err = ""

\* the two profiles' curves of the k-th quantity, shifted by -frac and by
\* 1 - frac times the fitted parameters, read at the output depths
Shifted1(k) ==
    interp_atmo_func(pr.odepth, ParTimes(RSub(RZero, pr.frac), pr.pars[k]), Unset,
                     pr.depth1, Vect1(k), Unset)

Shifted2(k) ==
    interp_atmo_func(pr.odepth, ParTimes(RSub(ROne, pr.frac), pr.pars[k]), Unset,
                     pr.depth2, Vect2(k), Unset)

\* (1 - frac) * value from 1 + frac * value from 2
Linear(k) ==
    LET s1 == Shifted1(k)
        s2 == Shifted2(k)
    IN  Array([i \in 1..Len(pr.odepth) |->
                  RAdd(RMul(RSub(ROne, pr.frac), s1[i]), RMul(pr.frac, s2[i]))])

\* the deepest point of each shifted profile
Deep1(k) == RSub(pr.depth1[Len(pr.depth1)], RMul(pr.pars[k][1], pr.frac))
Deep2(k) == RAdd(pr.depth2[Len(pr.depth2)], RMul(pr.pars[k][1], RSub(ROne, pr.frac)))

\* the output depth points beyond the deep end of either shifted profile
Beyond(k) ==
    {i \in 1..Len(pr.odepth) :
        RLt(Deep1(k), pr.odepth[i]) \/ RLt(Deep2(k), pr.odepth[i])}

\* the blended end value is not the median of itself and the two profiles'
\* end values, and an end value of a profile is within 0.1 of 4.2
EndsDisagree(k) ==
    LET e1 == Vect1(k)[Len(Vect1(k))]
        e2 == Vect2(k)[Len(Vect2(k))]
        e == Linear(k)[Len(pr.odepth)]
        between == (RLeq(e1, e) /\ RLeq(e, e2)) \/ (RLeq(e2, e) /\ RLeq(e, e1))
        near(v) == RLt(RAbs(RSub(v, <<21, 5>>)), <<1, 10>>)
    IN  ~between /\ (near(e1) \/ near(e2))

\* the k-th quantity with the points beyond the deep end taken from the
\* shifted profile that extends deeper
Overridden(k) ==
    LET deeper == IF RLt(Deep1(k), Deep2(k)) THEN Shifted2(k) ELSE Shifted1(k)
        linear == Linear(k)
        beyond == Beyond(k)
    IN  Array([i \in 1..Len(pr.odepth) |->
                  IF i \in beyond THEN deeper[i] ELSE linear[i]])

\* C23 as stated: a blended quantity whose end values disagree has its
\* points beyond the deep end of either shifted profile overridden with
\* the values of the shifted profile that extends deeper; every other
\* quantity is exactly (1 - frac) * value from 1 + frac * value from 2.
C23_EdgeCorrection ==
    Returned =>
        \A k \in 1..Len(pr.vtags) :
            pr.out[pr.vtags[k]] = IF EndsDisagree(k) THEN Overridden(k) ELSE Linear(k)

\* C23 as amended: the override is applied only when, in addition, frac
\* lies in [0, 1] and the two profiles have the same number of depth
\* points after the top trim.
C23_EdgeCorrectionForEqualCounts ==
    Returned =>
        \A k \in 1..Len(pr.vtags) :
            pr.out[pr.vtags[k]] =
                IF /\ EndsDisagree(k)
                   /\ RLeq(RZero, pr.frac) /\ RLeq(pr.frac, ROne)
                   /\ Len(pr.depth1) = Len(pr.depth2)
                THEN Overridden(k)
                ELSE Linear(k)

\* a returned blend at frac 1/2 of two profiles with equally many depth
\* points in which a quantity was overridden at its deep end
C23_Witness ==
    /\ Returned
    /\ pr.frac = RHalf
    /\ Len(pr.depth1) = Len(pr.depth2)
    /\ \E k \in 1..Len(pr.vtags) :
          /\ EndsDisagree(k)
          /\ Beyond(k) # {}
          /\ pr.out[pr.vtags[k]] = Overridden(k)
          /\ pr.out[pr.vtags[k]] # Linear(k)

-----------------------------------------------------------------------------
(* The trim of the top of the depth scales *)

\* both depth scales of a direct call have been trimmed
Trimmed == pr.pc # "idle" /\ pr.depth1 # Unset

\* the fractional step from depth point i to the next (counted from 0) of
\* the depth scale v is above the minimum of 0.01
StepUp(v, i) == RLt(min_dlog, RSub(v[i + 2], v[i + 1]))

\* the trim of scale v from index itop ended at index it and kept depth
TrimmedAt(v, itop, it, kept) ==
    /\ itop <= it
    /\ \A i \in itop..(it - 1) : ~StepUp(v, i)
    /\ it + 1 <= Len(v) - 1
    /\ StepUp(v, it)
    /\ kept = SubSeq(v, it + 1, Len(v))
    /\ Len(kept) >= 2

\* C24: the trim of each profile starts at itop and skips the depth points
\* whose fractional step to the next point is not above 0.01; it ends with
\* at least 2 points kept, the first of which has a step above 0.01, or
\* the call fails, which it does only when a profile has no step above
\* 0.01 from itop on; and the loop indexes no depth point beyond the last
\* one of the profile.
C24_TopTrimTerminates ==
    /\ pr.pc # "idle" =>
          /\ pr.top1 <= pr.atmo1.NDEP - 1
          /\ pr.top2 <= pr.atmo2.NDEP - 1
    /\ Trimmed =>
          /\ TrimmedAt(pr.atmo1[pr.interpvar], pr.itop, pr.itop1, pr.depth1)
          /\ TrimmedAt(pr.atmo2[pr.interpvar], pr.itop, pr.itop2, pr.depth2)
    /\ (pr.pc = "done" /\ pr.err = "IndexError") =>
          \E v \in {pr.atmo1[pr.interpvar], pr.atmo2[pr.interpvar]} :
             \A i \in pr.itop..(Len(v) - 2) : ~StepUp(v, i)
    /\ (pr.pc \in {"fit", "scale", "blend"}) => Trimmed

\* the tags of the profile's vectors on the depth points
DepthVectors(p) == p.tags \ (stags \cup {"NDEP"})

\* C25: a profile returned by interp_atmo_pair has NDEP equal to the
\* length of the output depth grid, and each of its vectors on the depth
\* points, fitted, depth scale or copied from the first profile, has
\* exactly NDEP entries.
C25_LengthInvariant ==
    Returned =>
        /\ pr.out.NDEP = Len(pr.odepth)
        /\ \A tag \in DepthVectors(pr.out) : Len(pr.out[tag]) = pr.out.NDEP

\* a returned blend on fewer depth points than the first profile has,
\* which carries a vector that was copied from the first profile
C25_Witness ==
    /\ Returned
    /\ pr.out.NDEP < pr.atmo1.NDEP
    /\ "HEIGHT" \in pr.out.tags
    /\ Len(pr.out.HEIGHT) = pr.out.NDEP

====
